---- MODULE Spec2Model ----
(***************************************************************************)
(* DirettaSync (src/src/DirettaSync.cpp): the audio delivery core of the   *)
(* renderer.  Four threads share the object:                               *)
(*   - the control thread  (enable/disable/open/close/release/play/...),   *)
(*   - the producer        (sendAudio),                                    *)
(*   - the SDK sync worker (getNewStream, the cycle callback),             *)
(*   - a status reader     (getBufferLevel).                               *)
(* The SDK itself (DIRETTA::Sync) is the environment: it answers the       *)
(* lifecycle calls, reports is_online() and calls startSyncWorker().       *)
(* Byte counts are scaled: one unit stands for a block of bytes.           *)
(***************************************************************************)
EXTENDS Integers, Sequences, FiniteSets, TLC

\* ------------------------------------------------------------------ bounds
\* Largest block (in units) one sendAudio call carries.
MaxPush == 1
\* Ring capacity (units) chosen for a PCM stream and for a DSD stream.
PcmRingUnits == 8
DsdRingUnits == 4
\* Prefill threshold before the clamp to a quarter of the ring.
PrefillUnits == 2
\* Cap on the number of shutdown-silence buffers a request enqueues.
MaxSilence == 1
\* Cap on the warmup (post-online stabilisation) target.
MaxWarmup == 2
\* Width of the underrun counter (it wraps at this value).
UnderrunWrap == 2
\* Failed attempts a retry loop is shown before it succeeds (or all attempts fail).
MaxRetryFails == 1
\* Track changes counted by the epoch, and seconds of position and duration.
MaxEpoch == 3
MaxSeconds == 2

Min(a, b) == IF a < b THEN a ELSE b
Max(a, b) == IF a > b THEN a ELSE b

\* ------------------------------------------------------------------ formats
PcmRates == {44100, 96000}
DsdRates == {2822400, 5644800}
PCMFormats == [sampleRate : PcmRates, bitDepth : {16}, channels : {2}, isDSD : {FALSE}, dsf : {TRUE}]
DSDFormats == [sampleRate : DsdRates, bitDepth : {1}, channels : {2}, isDSD : {TRUE}, dsf : {TRUE}]
Formats == PCMFormats \cup DSDFormats
\* The base rates: one PCM and one DSD stream.
StreamFormats == {f \in Formats : f.sampleRate \in {44100, 2822400}}
\* DSD64 from a DFF file (MSB first).
DFFFormats == [sampleRate : {2822400}, bitDepth : {1}, channels : {2}, isDSD : {TRUE}, dsf : {FALSE}]
\* CD-rate PCM in 24 and 32 bits.
DepthFormats == [sampleRate : {44100}, bitDepth : {24, 32}, channels : {2}, isDSD : {FALSE}, dsf : {TRUE}]
\* The base streams with the DSD stream in both source bit orders and the PCM
\* stream in the three bit depths.
SourceFormats == StreamFormats \cup DFFFormats \cup DepthFormats
NoFormat == [sampleRate |-> 0, bitDepth |-> 0, channels |-> 0, isDSD |-> FALSE, dsf |-> TRUE]
\* DirettaSync.h lines 141-147: the cached format values before the first load.
NoCache == [dsdMode |-> FALSE, pack24bit |-> FALSE, upsample16to32 |-> FALSE,
            channels |-> 0, bytesPerSample |-> 0, dsdConversionMode |-> "Passthrough"]

VARIABLES
  \* lifecycle flags of DirettaSync
  m_enabled, m_open, m_playing, m_paused, m_sdkOpen,
  m_running, workerJoinable,
  m_hasPreviousFormat, m_previousFormat,
  m_isDsdMode, m_sampleRate, m_bytesPerBuffer, m_prefillTarget,
  m_needDsdBitReversal, m_needDsdByteSwap, m_dsdConversionMode, sinkFormat,
  m_need24BitPack, m_need16To32Upsample, m_channels, m_bytesPerSample,
  \* what the sink answered to checkSinkSupport in the last negotiation
  sinkSupport,
  \* the ring buffer and the reconfigure gate
  m_ringBuffer, m_reconfiguring, m_ringUsers, configMutex,
  \* playback state shared with the callback
  m_stopRequested, m_draining, m_silenceBuffersRemaining,
  m_prefillComplete, m_postOnlineDelayDone, m_stabilizationCount,
  m_workerActive, m_underrunCount,
  \* the transport (DIRETTA::Sync) as seen from outside
  sessionOpen, connected, tPlaying, online, tlog,
  \* control thread
  pcC, cOp, cRet,
  \* producer thread
  pcP, pWritten, pRet, pWhy,
  \* sync worker (cycle callback)
  pcW, wBpb, wSil, wOut,
  \* status reader
  pcB,
  \* configureRing*'s arguments and the cycle size in bytes computed from them
  ringArgs, cycleBytes,
  \* sendAudio's format cache: whether m_formatGeneration differs from
  \* m_cachedFormatGen, and the cached values
  m_formatGenerationAhead, m_cached,
  \* the UPnP control adapter (UPnPDevice)
  m_currentTrackURI, m_currentPosition, m_trackDuration, m_trackEpoch,
  m_currentURI, m_currentMetadata, m_nextURI, m_nextMetadata,
  \* the SetAVTransportURI request being served: its arguments, its position,
  \* the error code set, whether onSetURI ran and whether the event was sent
  setURIRequest,
  \* history variables
  closedSinceOpen, wStartedClosed, warmupSinceOpen

flagVars == <<m_enabled, m_open, m_playing, m_paused, m_sdkOpen,
              m_hasPreviousFormat, m_previousFormat>>
workerVars == <<m_running, workerJoinable>>
convVars == <<m_needDsdBitReversal, m_needDsdByteSwap, m_dsdConversionMode, sinkFormat,
              m_need24BitPack, m_need16To32Upsample, m_channels, m_bytesPerSample,
              sinkSupport>>
geomVars == <<m_isDsdMode, m_sampleRate, m_bytesPerBuffer, m_prefillTarget, convVars>>
gateVars == <<m_reconfiguring, m_ringUsers, configMutex>>
playVars == <<m_stopRequested, m_draining, m_silenceBuffersRemaining,
              m_prefillComplete, m_postOnlineDelayDone, m_stabilizationCount,
              m_workerActive, m_underrunCount>>
sdkVars == <<sessionOpen, connected, tPlaying, online, tlog>>
ctlVars == <<pcC, cOp, cRet>>
prodVars == <<pcP, pWritten, pRet, pWhy>>
consVars == <<pcW, wBpb, wSil, wOut>>
adapterVars == <<m_currentTrackURI, m_currentPosition, m_trackDuration, m_trackEpoch,
                 m_currentURI, m_currentMetadata, m_nextURI, m_nextMetadata,
                 setURIRequest>>
cacheVars == <<m_formatGenerationAhead, m_cached>>
cycleVars == <<ringArgs, cycleBytes>>
histVars == <<closedSinceOpen, wStartedClosed, warmupSinceOpen>>

vars == <<flagVars, workerVars, geomVars, m_ringBuffer, gateVars, playVars,
          sdkVars, ctlVars, prodVars, consVars, pcB, cycleVars, adapterVars, cacheVars, histVars>>

\* ------------------------------------------------------------- ring buffer
\* DirettaRingBuffer: capacity, bytes available to pop, silence byte.
RingAvailable(rb) == rb.avail
RingFree(rb) == rb.size - rb.avail
\* push: copies what fits and returns the count written.
RingPushCount(rb, n) == Min(n, RingFree(rb))
RingPush(rb, n) == [rb EXCEPT !.avail = rb.avail + RingPushCount(rb, n)]
\* pop: copies min(available, n) bytes and advances the tail.
RingPopCount(rb, n) == Min(RingAvailable(rb), n)
RingPop(rb, n) == [rb EXCEPT !.avail = rb.avail - RingPopCount(rb, n)]
\* clear: drops the content, keeps the geometry.
RingClear(rb) == [rb EXCEPT !.avail = 0]
\* resize(size, silenceByte): new geometry, empty, new silence byte.
RingResize(size, silenceByte) == [size |-> size, avail |-> 0, silenceByte |-> silenceByte]

NoOut == [kind |-> "none", n |-> 0, byte |-> 0]
SilenceOut == [kind |-> "silence", n |-> wBpb, byte |-> wSil]

\* --------------------------------------------------- RingAccessGuard (14-40)
\* First load of the flag in the constructor.
GuardFirstCheckAborts == m_reconfiguring
\* Re-check after users_.fetch_add(1).
GuardRecheckAborts == m_reconfiguring

\* ------------------------------------------------------- producer: sendAudio
\* The entry test without its draining clause.
SendAudioRefusalNoDrain ==
  IF m_stopRequested THEN "stop"
  ELSE IF ~online THEN "offline"
  ELSE "none"

\* lines 1111-1113: refuse while draining, stopping or offline.
SendAudioRefusal ==
  IF m_draining THEN "draining"
  ELSE IF m_stopRequested THEN "stop"
  ELSE IF ~online THEN "offline"
  ELSE "none"

SendAudio_Call ==
  /\ pcP = "idle"
  /\ IF SendAudioRefusal # "none"
       THEN /\ pcP' = "ret"
            /\ pRet' = 0
            /\ pWhy' = SendAudioRefusal
       ELSE /\ pcP' = "guard1"
            /\ UNCHANGED <<pRet, pWhy>>
  /\ UNCHANGED <<pWritten, flagVars, workerVars, geomVars, m_ringBuffer, gateVars,
                 playVars, sdkVars, ctlVars, consVars, pcB, cycleVars, adapterVars, cacheVars, histVars>>

\* RingAccessGuard constructor, line 18.
SendAudio_Guard1 ==
  /\ pcP = "guard1"
  /\ IF GuardFirstCheckAborts
       THEN /\ pcP' = "ret"
            /\ pRet' = 0
            /\ pWhy' = "gate1"
       ELSE /\ pcP' = "guard2"
            /\ UNCHANGED <<pRet, pWhy>>
  /\ UNCHANGED <<pWritten, flagVars, workerVars, geomVars, m_ringBuffer, gateVars,
                 playVars, sdkVars, ctlVars, consVars, pcB, cycleVars, adapterVars, cacheVars, histVars>>

\* line 21: users_.fetch_add(1).
SendAudio_Guard2 ==
  /\ pcP = "guard2"
  /\ m_ringUsers' = m_ringUsers + 1
  /\ pcP' = "guard3"
  /\ UNCHANGED <<pWritten, pRet, pWhy, flagVars, workerVars, geomVars, m_ringBuffer,
                 m_reconfiguring, configMutex,
                 playVars, sdkVars, ctlVars, consVars, pcB, cycleVars, adapterVars, cacheVars, histVars>>

\* An aborting re-check that forgets its fetch_sub.
GuardAbortLeak == 1 - 1

\* Net change of ring_users made by an aborting re-check (lines 22-25).
GuardAbortDelta == -1

\* lines 22-25: re-check; on abort fetch_sub(1) and leave inactive.
SendAudio_Guard3 ==
  /\ pcP = "guard3"
  /\ IF GuardRecheckAborts
       THEN /\ m_ringUsers' = m_ringUsers + GuardAbortDelta
            /\ pcP' = "ret"
            /\ pRet' = 0
            /\ pWhy' = "gate2"
       ELSE /\ pcP' = "push"
            /\ UNCHANGED <<m_ringUsers, pRet, pWhy>>
  /\ UNCHANGED <<pWritten, flagVars, workerVars, geomVars, m_ringBuffer,
                 m_reconfiguring, configMutex,
                 playVars, sdkVars, ctlVars, consVars, pcB, cycleVars, adapterVars, cacheVars, histVars>>

\* lines 1122-1127: the shared format values sendAudio copies into its cache.
SharedFormatValues ==
  [dsdMode |-> m_isDsdMode, pack24bit |-> m_need24BitPack,
   upsample16to32 |-> m_need16To32Upsample, channels |-> m_channels,
   bytesPerSample |-> m_bytesPerSample, dsdConversionMode |-> m_dsdConversionMode]

\* lines 1142-1176: the push variant sendAudio selects for format values c.
PushVariant(c) ==
  IF c.dsdMode THEN "pushDSDPlanarOptimized"
  ELSE IF c.pack24bit THEN "push24BitPacked"
  ELSE IF c.upsample16to32 THEN "push16To32"
  ELSE "push"

\* lines 1153-1176: the bytes per sample a PCM push variant reads from the
\* caller's buffer (bytesPerFrame / numChannels) and writes to the ring.
PushWidths(c) ==
  IF c.pack24bit THEN [read |-> 4, write |-> 3]
  ELSE IF c.upsample16to32 THEN [read |-> 2, write |-> 4]
  ELSE [read |-> c.bytesPerSample, write |-> c.bytesPerSample]

\* lines 1120-1129: the cache is reloaded when the generation differs.
LoadFormatCache ==
  /\ m_cached' = IF m_formatGenerationAhead THEN SharedFormatValues ELSE m_cached
  /\ m_formatGenerationAhead' = FALSE

\* lines 1120-1176: push the block through the selected variant.
SendAudio_Push(n) ==
  /\ pcP = "push"
  /\ pWritten' = RingPushCount(m_ringBuffer, n)
  /\ m_ringBuffer' = RingPush(m_ringBuffer, n)
  /\ pcP' = IF pWritten' > 0 THEN "prefillChk" ELSE "exit"
  /\ LoadFormatCache
  /\ UNCHANGED <<pRet, pWhy, flagVars, workerVars, geomVars, gateVars,
                 playVars, sdkVars, ctlVars, consVars, pcB, cycleVars, adapterVars, histVars>>

\* lines 1180-1181: the two loads that decide prefill completion.
PrefillReached == RingAvailable(m_ringBuffer) >= m_prefillTarget

SendAudio_PrefillCheck ==
  /\ pcP = "prefillChk"
  /\ pcP' = IF ~m_prefillComplete /\ PrefillReached THEN "prefillSet" ELSE "exit"
  /\ UNCHANGED <<pWritten, pRet, pWhy, flagVars, workerVars, geomVars, m_ringBuffer,
                 gateVars, playVars, sdkVars, ctlVars, consVars, pcB, cycleVars, adapterVars, cacheVars, histVars>>

\* line 1182: m_prefillComplete = true.
SendAudio_PrefillSet ==
  /\ pcP = "prefillSet"
  /\ m_prefillComplete' = TRUE
  /\ pcP' = "exit"
  /\ UNCHANGED <<pWritten, pRet, pWhy, flagVars, workerVars, geomVars, m_ringBuffer,
                 gateVars, m_stopRequested, m_draining, m_silenceBuffersRemaining,
                 m_postOnlineDelayDone, m_stabilizationCount, m_workerActive,
                 m_underrunCount, sdkVars, ctlVars, consVars, pcB, cycleVars, adapterVars, cacheVars, histVars>>

\* line 1197 and the guard's destructor (29-33).
SendAudio_Exit ==
  /\ pcP = "exit"
  /\ m_ringUsers' = m_ringUsers - 1
  /\ pRet' = pWritten
  /\ pWhy' = "ok"
  /\ pcP' = "ret"
  /\ UNCHANGED <<pWritten, flagVars, workerVars, geomVars, m_ringBuffer,
                 m_reconfiguring, configMutex,
                 playVars, sdkVars, ctlVars, consVars, pcB, cycleVars, adapterVars, cacheVars, histVars>>

\* The caller has the result; the next call starts from here.
SendAudio_Return ==
  /\ pcP = "ret"
  /\ pcP' = "idle"
  /\ pRet' = 0
  /\ pWhy' = "none"
  /\ pWritten' = 0
  /\ UNCHANGED <<flagVars, workerVars, geomVars, m_ringBuffer, gateVars,
                 playVars, sdkVars, ctlVars, consVars, pcB, cycleVars, adapterVars, cacheVars, histVars>>

\* sendAudio() as one uninterrupted call (lines 1110-1198): the refusals, the
\* guard, the push and the prefill check.  The producer is between calls before
\* and after it.
SendAudio(n) ==
  /\ pcP = "idle"
  /\ IF SendAudioRefusal # "none" \/ GuardFirstCheckAborts
       THEN UNCHANGED <<m_ringBuffer, m_prefillComplete, cacheVars>>
       ELSE /\ LoadFormatCache
            /\ m_ringBuffer' = RingPush(m_ringBuffer, n)
            /\ m_prefillComplete' =
                 IF RingPushCount(m_ringBuffer, n) > 0 /\ ~m_prefillComplete
                    /\ RingAvailable(m_ringBuffer') >= m_prefillTarget
                   THEN TRUE ELSE m_prefillComplete
  /\ UNCHANGED <<prodVars, flagVars, workerVars, geomVars, gateVars,
                 m_stopRequested, m_draining, m_silenceBuffersRemaining,
                 m_postOnlineDelayDone, m_stabilizationCount, m_workerActive,
                 m_underrunCount, sdkVars, ctlVars, consVars, pcB, cycleVars, adapterVars, histVars>>

\* ------------------------------------------- sync worker: getNewStream
\* m_effectiveMTU (DirettaSync.h) and the warmup constants of getNewStream.
EffectiveMTU == 1500
PostOnlineSilenceBuffers == 50
DsdWarmupBaseMs == 50
DsdStabilizationMin == 50
DsdStabilizationMax == 3000

CeilDiv(a, b) == (a + b - 1) \div b

\* lines 1266-1288: the number of warmup buffers, from the mode flag and the
\* stored sample rate.  bytesPerSecond = rate * 2 / 8; a rate of 0 makes the
\* cycle time infinite and the quotient 0.
StabilizationTargetExact(isDsd, sampleRate) ==
  IF ~isDsd THEN PostOnlineSilenceBuffers
  ELSE LET dsdMultiplier == sampleRate \div 2822400
           targetWarmupMs == DsdWarmupBaseMs * Max(1, dsdMultiplier)
           efficientMTU == EffectiveMTU - 24
           bytesPerSecond == (sampleRate * 2) \div 8
           buffersNeeded == CeilDiv(targetWarmupMs * bytesPerSecond, efficientMTU * 1000)
       IN  Max(DsdStabilizationMin, Min(buffersNeeded, DsdStabilizationMax))

\* The target the scaled model counts to.
StabilizationTarget(isDsd, sampleRate) ==
  Min(MaxWarmup, StabilizationTargetExact(isDsd, sampleRate))

\* The worker thread's loop calls syncWorker() while m_running (1343-1349).
WorkerLoopRuns == workerJoinable /\ m_running

\* What every return path of the callback does last: the buffer is handed
\* back, m_workerActive = false, the guard (if active) is released.
CallbackFinish(out, held) ==
  /\ wOut' = out
  /\ m_workerActive' = FALSE
  /\ m_ringUsers' = m_ringUsers - held
  /\ pcW' = "ret"

\* lines 1216-1218.
GetNewStream_Begin ==
  /\ pcW = "idle"
  /\ WorkerLoopRuns
  /\ m_workerActive' = TRUE
  /\ wBpb' = m_bytesPerBuffer
  /\ wStartedClosed' = closedSinceOpen
  /\ pcW' = "sil"
  /\ UNCHANGED <<wSil, wOut, flagVars, workerVars, geomVars, m_ringBuffer, gateVars,
                 m_stopRequested, m_draining, m_silenceBuffersRemaining,
                 m_prefillComplete, m_postOnlineDelayDone, m_stabilizationCount,
                 m_underrunCount, sdkVars, ctlVars, prodVars, pcB, cycleVars, adapterVars, cacheVars,
                 closedSinceOpen, warmupSinceOpen>>

\* line 1219: m_ringBuffer.silenceByte(), before the guard is built.
GetNewStream_SilenceByte ==
  /\ pcW = "sil"
  /\ wSil' = m_ringBuffer.silenceByte
  /\ pcW' = "guard1"
  /\ UNCHANGED <<wBpb, wOut, flagVars, workerVars, geomVars, m_ringBuffer, gateVars,
                 playVars, sdkVars, ctlVars, prodVars, pcB, cycleVars, adapterVars, cacheVars, histVars>>

\* line 1227, guard constructor line 18; abort path 1228-1232.
GetNewStream_Guard1 ==
  /\ pcW = "guard1"
  /\ IF GuardFirstCheckAborts
       THEN CallbackFinish(SilenceOut, 0)
       ELSE /\ pcW' = "guard2"
            /\ UNCHANGED <<wOut, m_workerActive, m_ringUsers>>
  /\ UNCHANGED <<wBpb, wSil, flagVars, workerVars, geomVars, m_ringBuffer,
                 m_reconfiguring, configMutex,
                 m_stopRequested, m_draining, m_silenceBuffersRemaining,
                 m_prefillComplete, m_postOnlineDelayDone, m_stabilizationCount,
                 m_underrunCount, sdkVars, ctlVars, prodVars, pcB, cycleVars, adapterVars, cacheVars, histVars>>

GetNewStream_Guard2 ==
  /\ pcW = "guard2"
  /\ m_ringUsers' = m_ringUsers + 1
  /\ pcW' = "guard3"
  /\ UNCHANGED <<wBpb, wSil, wOut, flagVars, workerVars, geomVars, m_ringBuffer,
                 m_reconfiguring, configMutex,
                 playVars, sdkVars, ctlVars, prodVars, pcB, cycleVars, adapterVars, cacheVars, histVars>>

GetNewStream_Guard3 ==
  /\ pcW = "guard3"
  /\ IF GuardRecheckAborts
       THEN CallbackFinish(SilenceOut, -GuardAbortDelta)
       ELSE /\ pcW' = "tree"
            /\ UNCHANGED <<wOut, m_workerActive, m_ringUsers>>
  /\ UNCHANGED <<wBpb, wSil, flagVars, workerVars, geomVars, m_ringBuffer,
                 m_reconfiguring, configMutex,
                 m_stopRequested, m_draining, m_silenceBuffersRemaining,
                 m_prefillComplete, m_postOnlineDelayDone, m_stabilizationCount,
                 m_underrunCount, sdkVars, ctlVars, prodVars, pcB, cycleVars, adapterVars, cacheVars, histVars>>

\* The decision of lines 1237-1317, taken in the code's order.
\* The decision without its underrun test: a short ring goes on to pop.
CallbackBranchNoUnderrun(bytesPerBuffer) ==
  IF m_silenceBuffersRemaining > 0 THEN "shutdownSilence"
  ELSE IF m_stopRequested THEN "stop"
  ELSE IF ~m_prefillComplete THEN "prefill"
  ELSE IF ~m_postOnlineDelayDone THEN "warmup"
  ELSE "pop"

\* The decision with the warmup test moved in front of the prefill test.
CallbackBranchWarmupFirst(bytesPerBuffer) ==
  IF m_silenceBuffersRemaining > 0 THEN "shutdownSilence"
  ELSE IF m_stopRequested THEN "stop"
  ELSE IF ~m_postOnlineDelayDone THEN "warmup"
  ELSE IF ~m_prefillComplete THEN "prefill"
  ELSE IF RingAvailable(m_ringBuffer) < bytesPerBuffer THEN "underrun"
  ELSE "pop"

CallbackBranchFor(bytesPerBuffer) ==
  IF m_silenceBuffersRemaining > 0 THEN "shutdownSilence"
  ELSE IF m_stopRequested THEN "stop"
  ELSE IF ~m_prefillComplete THEN "prefill"
  ELSE IF ~m_postOnlineDelayDone THEN "warmup"
  ELSE IF RingAvailable(m_ringBuffer) < bytesPerBuffer THEN "underrun"
  ELSE "pop"

\* The step-by-step callback decides with the cycle size it loaded at line 1218.
CallbackBranch == CallbackBranchFor(wBpb)

BumpWarmup == Min(MaxWarmup, warmupSinceOpen + 1)

GetNewStream_Decide ==
  /\ pcW = "tree"
  /\ CASE CallbackBranch = "shutdownSilence" ->
            /\ pcW' = "silDec"
            /\ UNCHANGED <<wOut, m_workerActive, m_ringUsers, m_stabilizationCount,
                           m_underrunCount, warmupSinceOpen>>
       [] CallbackBranch \in {"stop", "prefill"} ->
            /\ CallbackFinish(SilenceOut, 1)
            /\ UNCHANGED <<m_stabilizationCount, m_underrunCount, warmupSinceOpen>>
       [] CallbackBranch = "warmup" ->
            \* line 1290: fetch_add(1) + 1, compared with the target
            /\ m_stabilizationCount' = m_stabilizationCount + 1
            /\ warmupSinceOpen' = BumpWarmup
            /\ IF m_stabilizationCount' >= StabilizationTarget(m_isDsdMode, m_sampleRate)
                 THEN /\ pcW' = "warmSet"
                      /\ UNCHANGED <<wOut, m_workerActive, m_ringUsers>>
                 ELSE CallbackFinish(SilenceOut, 1)
            /\ UNCHANGED m_underrunCount
       [] CallbackBranch = "underrun" ->
            /\ m_underrunCount' = (m_underrunCount + 1) % UnderrunWrap
            /\ CallbackFinish(SilenceOut, 1)
            /\ UNCHANGED <<m_stabilizationCount, warmupSinceOpen>>
       [] CallbackBranch = "pop" ->
            /\ pcW' = "pop"
            /\ UNCHANGED <<wOut, m_workerActive, m_ringUsers, m_stabilizationCount,
                           m_underrunCount, warmupSinceOpen>>
  /\ UNCHANGED <<wBpb, wSil, flagVars, workerVars, geomVars, m_ringBuffer,
                 m_reconfiguring, configMutex,
                 m_stopRequested, m_draining, m_silenceBuffersRemaining,
                 m_prefillComplete, m_postOnlineDelayDone,
                 sdkVars, ctlVars, prodVars, pcB, cycleVars, adapterVars, cacheVars, closedSinceOpen, wStartedClosed>>

\* lines 1240-1243: memset, fetch_sub(1).
GetNewStream_SilenceDec ==
  /\ pcW = "silDec"
  /\ m_silenceBuffersRemaining' = m_silenceBuffersRemaining - 1
  /\ CallbackFinish(SilenceOut, 1)
  /\ UNCHANGED <<wBpb, wSil, flagVars, workerVars, geomVars, m_ringBuffer,
                 m_reconfiguring, configMutex,
                 m_stopRequested, m_draining,
                 m_prefillComplete, m_postOnlineDelayDone, m_stabilizationCount,
                 m_underrunCount, sdkVars, ctlVars, prodVars, pcB, cycleVars, adapterVars, cacheVars, histVars>>

\* lines 1292-1298: warmup done, counter back to 0.
GetNewStream_WarmupDone ==
  /\ pcW = "warmSet"
  /\ m_postOnlineDelayDone' = TRUE
  /\ m_stabilizationCount' = 0
  /\ CallbackFinish(SilenceOut, 1)
  /\ UNCHANGED <<wBpb, wSil, flagVars, workerVars, geomVars, m_ringBuffer,
                 m_reconfiguring, configMutex,
                 m_stopRequested, m_draining, m_silenceBuffersRemaining,
                 m_prefillComplete, m_underrunCount,
                 sdkVars, ctlVars, prodVars, pcB, cycleVars, adapterVars, cacheVars, histVars>>

\* What m_ringBuffer.pop(dest, currentBytesPerBuffer) leaves in the buffer.
PopOut(rb, n) ==
  [kind |-> IF RingPopCount(rb, n) = n THEN "audio" ELSE "short",
   n |-> RingPopCount(rb, n), byte |-> 0]

\* line 1320.
GetNewStream_Pop ==
  /\ pcW = "pop"
  /\ m_ringBuffer' = RingPop(m_ringBuffer, wBpb)
  /\ CallbackFinish(PopOut(m_ringBuffer, wBpb), 1)
  /\ UNCHANGED <<wBpb, wSil, flagVars, workerVars, geomVars,
                 m_reconfiguring, configMutex,
                 m_stopRequested, m_draining, m_silenceBuffersRemaining,
                 m_prefillComplete, m_postOnlineDelayDone, m_stabilizationCount,
                 m_underrunCount, sdkVars, ctlVars, prodVars, pcB, cycleVars, adapterVars, cacheVars, histVars>>

\* The transport has taken the buffer.
GetNewStream_Return ==
  /\ pcW = "ret"
  /\ pcW' = "idle"
  /\ wOut' = NoOut
  /\ wBpb' = 0
  /\ wSil' = 0
  /\ wStartedClosed' = FALSE
  /\ UNCHANGED <<flagVars, workerVars, geomVars, m_ringBuffer, gateVars,
                 playVars, sdkVars, ctlVars, prodVars, pcB, cycleVars, adapterVars, cacheVars,
                 closedSinceOpen, warmupSinceOpen>>

\* getNewStream() as one uninterrupted call (lines 1212-1324): the worker thread
\* is between cycles before and after it.
GetNewStream ==
  /\ pcW = "idle"
  /\ WorkerLoopRuns
  /\ LET branch == IF GuardFirstCheckAborts THEN "reconfiguring"
                   ELSE CallbackBranchFor(m_bytesPerBuffer)
         warm == m_stabilizationCount + 1
         done == warm >= StabilizationTarget(m_isDsdMode, m_sampleRate)
     IN  /\ m_silenceBuffersRemaining' =
              IF branch = "shutdownSilence" THEN m_silenceBuffersRemaining - 1
              ELSE m_silenceBuffersRemaining
         /\ m_stabilizationCount' =
              IF branch = "warmup" THEN (IF done THEN 0 ELSE warm)
              ELSE m_stabilizationCount
         /\ m_postOnlineDelayDone' =
              IF branch = "warmup" /\ done THEN TRUE ELSE m_postOnlineDelayDone
         /\ warmupSinceOpen' = IF branch = "warmup" THEN BumpWarmup ELSE warmupSinceOpen
         /\ m_underrunCount' =
              IF branch = "underrun" THEN (m_underrunCount + 1) % UnderrunWrap
              ELSE m_underrunCount
         /\ m_ringBuffer' =
              IF branch = "pop" THEN RingPop(m_ringBuffer, m_bytesPerBuffer)
              ELSE m_ringBuffer
  /\ UNCHANGED <<consVars, flagVars, workerVars, geomVars, gateVars,
                 m_stopRequested, m_draining, m_prefillComplete, m_workerActive,
                 sdkVars, ctlVars, prodVars, pcB, cycleVars, adapterVars, cacheVars, closedSinceOpen, wStartedClosed>>

\* ------------------------------------------- status reader: getBufferLevel
\* lines 1201-1202, guard constructor up to the fetch_add.
GetBufferLevel_Guard1 ==
  /\ UNCHANGED <<cycleVars, adapterVars, cacheVars>>
  /\ pcB = "idle"
  /\ pcB' = IF GuardFirstCheckAborts THEN "idle" ELSE "guard2"
  /\ UNCHANGED <<flagVars, workerVars, geomVars, m_ringBuffer, gateVars,
                 playVars, sdkVars, ctlVars, prodVars, consVars, histVars>>

GetBufferLevel_Guard2 ==
  /\ UNCHANGED <<cycleVars, adapterVars, cacheVars>>
  /\ pcB = "guard2"
  /\ m_ringUsers' = m_ringUsers + 1
  /\ pcB' = "guard3"
  /\ UNCHANGED <<flagVars, workerVars, geomVars, m_ringBuffer,
                 m_reconfiguring, configMutex,
                 playVars, sdkVars, ctlVars, prodVars, consVars, histVars>>

GetBufferLevel_Guard3 ==
  /\ UNCHANGED <<cycleVars, adapterVars, cacheVars>>
  /\ pcB = "guard3"
  /\ IF GuardRecheckAborts
       THEN /\ m_ringUsers' = m_ringUsers + GuardAbortDelta
            /\ pcB' = "idle"
       ELSE /\ pcB' = "read"
            /\ UNCHANGED m_ringUsers
  /\ UNCHANGED <<flagVars, workerVars, geomVars, m_ringBuffer,
                 m_reconfiguring, configMutex,
                 playVars, sdkVars, ctlVars, prodVars, consVars, histVars>>

\* lines 1203-1205 and the guard's destructor.
GetBufferLevel_Read ==
  /\ UNCHANGED <<cycleVars, adapterVars, cacheVars>>
  /\ pcB = "read"
  /\ m_ringUsers' = m_ringUsers - 1
  /\ pcB' = "idle"
  /\ UNCHANGED <<flagVars, workerVars, geomVars, m_ringBuffer,
                 m_reconfiguring, configMutex,
                 playVars, sdkVars, ctlVars, prodVars, consVars, histVars>>

\* ------------------------------------------------------------ control thread
\* Retry counts (DirettaRetry) and the scaled cycle sizes.
OPEN_RETRIES == 3
SETSINK_RETRIES_FULL == 5
CONNECT_RETRIES == 3
REOPEN_SINK_RETRIES == 3
PcmCycleUnits == 1
DsdCycleUnits == 1
PcmSilenceByte == 0
DsdSilenceByte == 105

NoOp == [name |-> "none", fmt |-> NoFormat, path |-> "none", cont |-> "none"]
Repeat(call, k) == [i \in 1..k |-> call]
\* The calls of a retry loop that sees `fails` failures out of `max` attempts.
RetryCalls(call, fails, max) == Repeat(call, Min(fails + 1, max))
\* A loop that reports success whatever its attempts returned.
RetryAlwaysOk(fails, max) == fails <= max
RetryOk(fails, max) == fails < max
\* The failure counts tried for a loop of `max` attempts.
RetryOutcomes(max) == (0..Min(MaxRetryFails, max)) \cup {max}

\* requestShutdownSilence (1385-1389): the requested count, capped for the model.
ShutdownSilenceCount(buffers) == Min(buffers, MaxSilence)

\* A silence wait that only a drained counter ends.
SilenceWaitUnbounded(expired) == m_silenceBuffersRemaining = 0
\* The silence waits of lines 358-362, 641-648, 1053-1057 and 1070-1074 end
\* when the counter is 0 or when their bound (100, 150, 150, 80 ms) has passed.
SilenceWaitOver(expired) == m_silenceBuffersRemaining = 0 \/ expired

\* A join that returns as soon as the thread is between two callbacks.
WorkerJoinIgnoresRunning == (~workerJoinable) \/ (pcW = "idle")
\* The worker thread has left its loop (1344: m_running is false and no
\* callback is in progress): join() returns; so it does when there is no thread.
WorkerJoinReturns == (~workerJoinable) \/ (pcW = "idle" /\ ~m_running)

\* A fast path that asks for no shutdown silence.
FastPathNoSilence == 1 - 1
\* line 357: requestShutdownSilence(30) on the DSD fast path.
FastPathSilenceBuffers == 30

\* A teardown that leaves the transport running.
TeardownWithoutStop == <<"disconnect", "close_session">>
\* lines 414-421 / 463-470: stop(), disconnect(true), DIRETTA::Sync::close().
TeardownCalls == <<"stop", "disconnect", "close_session">>

\* open(): comparison of lines 340-343.
SameFormat(prev, f) ==
  /\ prev.sampleRate = f.sampleRate
  /\ prev.bitDepth = f.bitDepth
  /\ prev.channels = f.channels
  /\ prev.isDSD = f.isDSD

\* open(): which branch of lines 339-511 a call takes.
OpenPath(isOpen, hasPrev, prev, f) ==
  IF ~(isOpen /\ hasPrev) THEN "first"
  ELSE IF SameFormat(prev, f) THEN "fast"
  ELSE IF prev.isDSD /\ (~f.isDSD \/ prev.sampleRate # f.sampleRate) THEN "rate"
  ELSE IF ~prev.isDSD /\ ~f.isDSD /\ prev.sampleRate # f.sampleRate THEN "rate"
  ELSE "reconf"

\* lines 312-511 up to the first point where open() waits.
Open_Call(f, sdkFails) ==
  /\ pcC = "idle"
  /\ closedSinceOpen' = FALSE
  /\ wStartedClosed' = FALSE
  /\ UNCHANGED warmupSinceOpen
  /\ LET reopenSdk == m_enabled /\ ~m_sdkOpen
         sdkOk == ~reopenSdk \/ RetryOk(sdkFails, OPEN_RETRIES)
         log0 == IF reopenSdk
                   THEN RetryCalls("open_session", sdkFails, OPEN_RETRIES)
                        \o (IF sdkOk THEN <<"query_caps">> ELSE <<>>)
                   ELSE <<>>
         path == OpenPath(m_open, m_hasPreviousFormat, m_previousFormat, f)
     IN
     IF ~m_enabled \/ ~sdkOk
       THEN /\ pcC' = "ret"
            /\ cRet' = "fail"
            /\ cOp' = [name |-> "open", fmt |-> f, path |-> "none", cont |-> "none"]
            /\ tlog' = log0
            /\ UNCHANGED <<flagVars, workerVars, sessionOpen, connected, tPlaying, online,
                           m_silenceBuffersRemaining, m_draining>>
       ELSE /\ cOp' = [name |-> "open", fmt |-> f, path |-> path, cont |-> "none"]
            /\ cRet' = "none"
            /\ m_sdkOpen' = TRUE
            /\ UNCHANGED <<m_enabled, m_open, m_playing, m_paused,
                           m_hasPreviousFormat, m_previousFormat, workerJoinable>>
            /\ CASE path = "first" ->
                      /\ pcC' = "fr_begin"
                      /\ tlog' = log0
                      /\ sessionOpen' = (sessionOpen \/ reopenSdk)
                      /\ UNCHANGED <<connected, tPlaying, online, m_running,
                                     m_silenceBuffersRemaining, m_draining>>
                 [] path = "fast" ->
                      \* lines 356-363
                      /\ IF m_isDsdMode
                           THEN /\ m_silenceBuffersRemaining' =
                                     ShutdownSilenceCount(FastPathSilenceBuffers)
                                /\ m_draining' = TRUE
                                /\ pcC' = "fp_wait"
                           ELSE /\ pcC' = "fp_clear"
                                /\ UNCHANGED <<m_silenceBuffersRemaining, m_draining>>
                      /\ tlog' = log0
                      /\ sessionOpen' = (sessionOpen \/ reopenSdk)
                      /\ UNCHANGED <<connected, tPlaying, online, m_running>>
                 [] path = "rate" ->
                      \* lines 411-421 and 460-470
                      /\ m_silenceBuffersRemaining' = 0
                      /\ tlog' = log0 \o TeardownCalls
                      /\ tPlaying' = FALSE
                      /\ connected' = FALSE
                      /\ online' = FALSE
                      /\ sessionOpen' = FALSE
                      /\ m_running' = FALSE
                      /\ pcC' = "ro_join"
                      /\ UNCHANGED m_draining
                 [] path = "reconf" ->
                      \* reopenForFormatChange, lines 706-710
                      /\ tlog' = log0 \o <<"stop", "disconnect", "close_session">>
                      /\ tPlaying' = FALSE
                      /\ connected' = FALSE
                      /\ online' = FALSE
                      /\ sessionOpen' = FALSE
                      /\ m_running' = FALSE
                      /\ pcC' = "rf_join"
                      /\ UNCHANGED <<m_silenceBuffersRemaining, m_draining>>
  /\ UNCHANGED <<geomVars, m_ringBuffer, gateVars, m_stopRequested,
                 m_prefillComplete, m_postOnlineDelayDone, m_stabilizationCount,
                 m_workerActive, m_underrunCount, prodVars, consVars, pcB, cycleVars, adapterVars, cacheVars>>

\* lines 422-450 / 471-497: join the worker, mark closed, settle, re-open the session.
Open_RateJoin(sessionOk) ==
  /\ pcC = "ro_join"
  /\ WorkerJoinReturns
  /\ workerJoinable' = FALSE
  /\ m_open' = FALSE
  /\ m_playing' = FALSE
  /\ m_paused' = FALSE
  /\ tlog' = tlog \o <<"settle", "open_session">>
  /\ sessionOpen' = sessionOk
  /\ IF sessionOk
       THEN /\ pcC' = "fr_begin"
            /\ UNCHANGED cRet
       ELSE /\ pcC' = "ret"
            /\ cRet' = "fail"
  /\ UNCHANGED <<m_enabled, m_sdkOpen, m_hasPreviousFormat, m_previousFormat, m_running,
                 geomVars, m_ringBuffer, gateVars, playVars,
                 connected, tPlaying, online, cOp, prodVars, consVars, pcB, cycleVars, adapterVars, cacheVars, histVars>>

\* reopenForFormatChange, lines 711-749.
Open_ReconfJoin(sessionOk, sinkFails) ==
  /\ pcC = "rf_join"
  /\ WorkerJoinReturns
  /\ workerJoinable' = FALSE
  /\ sessionOpen' = sessionOk
  /\ LET sinkOk == RetryOk(sinkFails, REOPEN_SINK_RETRIES)
     IN  IF ~sessionOk
           THEN /\ tlog' = tlog \o <<"settle", "open_session">>
                /\ pcC' = "ret"
                /\ cRet' = "fail"
           ELSE /\ tlog' = tlog \o <<"settle", "open_session">>
                             \o RetryCalls("set_sink_format", sinkFails, REOPEN_SINK_RETRIES)
                             \o (IF sinkOk THEN <<"query_caps">> ELSE <<>>)
                /\ IF sinkOk
                     THEN /\ pcC' = "fr_begin"
                          /\ UNCHANGED cRet
                     ELSE /\ pcC' = "ret"
                          /\ cRet' = "fail"
  /\ UNCHANGED <<flagVars, m_running, geomVars, m_ringBuffer, gateVars, playVars,
                 connected, tPlaying, online, cOp, prodVars, consVars, pcB, cycleVars, adapterVars, cacheVars, histVars>>

\* fullReset(), lines 755-756.
FullReset_Begin ==
  /\ pcC = "fr_begin"
  /\ m_stopRequested' = TRUE
  /\ m_draining' = FALSE
  /\ pcC' = "fr_wait"
  /\ UNCHANGED <<flagVars, workerVars, geomVars, m_ringBuffer, gateVars,
                 m_silenceBuffersRemaining, m_prefillComplete, m_postOnlineDelayDone,
                 m_stabilizationCount, m_workerActive, m_underrunCount,
                 sdkVars, cOp, cRet, prodVars, consVars, pcB, cycleVars, adapterVars, cacheVars, histVars>>

\* lines 758-766: the bounded wait for m_workerActive, then the config mutex
\* and beginReconfigure's store (1359).
FullReset_Lock ==
  /\ pcC = "fr_wait"
  /\ configMutex' = "control"
  /\ m_reconfiguring' = TRUE
  /\ pcC' = "fr_gate"
  /\ UNCHANGED <<flagVars, workerVars, geomVars, m_ringBuffer, m_ringUsers, playVars,
                 sdkVars, cOp, cRet, prodVars, consVars, pcB, cycleVars, adapterVars, cacheVars, histVars>>

\* beginReconfigure's loop (1360-1362) ends.
GateWaitOver == m_ringUsers = 0

FullReset_Gate ==
  /\ pcC = "fr_gate"
  /\ GateWaitOver
  /\ pcC' = "fr_body"
  /\ UNCHANGED <<flagVars, workerVars, geomVars, m_ringBuffer, gateVars, playVars,
                 sdkVars, cOp, cRet, prodVars, consVars, pcB, cycleVars, adapterVars, cacheVars, histVars>>

\* lines 768-784: the reset under the gate, endReconfigure, m_stopRequested = false.
FullReset_Body ==
  /\ pcC = "fr_body"
  /\ m_prefillComplete' = FALSE
  /\ m_postOnlineDelayDone' = FALSE
  /\ m_silenceBuffersRemaining' = 0
  /\ m_stabilizationCount' = 0
  /\ m_isDsdMode' = FALSE
  /\ m_needDsdBitReversal' = FALSE
  /\ m_needDsdByteSwap' = FALSE
  /\ m_need24BitPack' = FALSE
  /\ m_need16To32Upsample' = FALSE
  /\ m_ringBuffer' = RingClear(m_ringBuffer)
  /\ m_reconfiguring' = FALSE
  /\ configMutex' = "free"
  /\ m_stopRequested' = FALSE
  /\ pcC' = "cfg"
  /\ UNCHANGED <<flagVars, workerVars, m_sampleRate, m_bytesPerBuffer, m_prefillTarget,
                 m_dsdConversionMode, sinkFormat, m_channels, m_bytesPerSample,
                 sinkSupport,
                 m_ringUsers, m_draining, m_workerActive, m_underrunCount,
                 sdkVars, cOp, cRet, prodVars, consVars, pcB, cycleVars, adapterVars, cacheVars, histVars>>

\* configureSinkPCM (799-821) and configureSinkDSD (841-942): the candidates, in
\* the order they are offered to the sink.
PcmSinkOrderAscending == <<"PCM16", "PCM24", "PCM32">>
PcmSinkOrder == <<"PCM32", "PCM24", "PCM16">>
DsdSinkOrder == <<"LSB_BIG", "MSB_BIG", "LSB_LITTLE", "MSB_LITTLE", "DSD1">>
PcmSinkCandidates == {PcmSinkOrder[i] : i \in 1..Len(PcmSinkOrder)}
DsdSinkCandidates == {DsdSinkOrder[i] : i \in 1..Len(DsdSinkOrder)}
SinkCandidates(isDsd) == IF isDsd THEN DsdSinkCandidates ELSE PcmSinkCandidates
\* The candidates offered last first.
SinkTriedBackwards(order, supported) ==
  IF \E i \in 1..Len(order) : order[i] \in supported
    THEN order[CHOOSE i \in 1..Len(order) :
                 order[i] \in supported /\ \A j \in (i+1)..Len(order) : order[j] \notin supported]
    ELSE "none"
\* The chain of if (checkSinkSupport(fmt)) { ...; return; }: the first candidate
\* the sink supports, "none" when the chain falls through to the throw.
SinkAccepts(order, supported) ==
  IF \E i \in 1..Len(order) : order[i] \in supported
    THEN order[CHOOSE i \in 1..Len(order) :
                 order[i] \in supported /\ \A j \in 1..(i-1) : order[j] \notin supported]
    ELSE "none"
\* Bit order and endianness of a DSD candidate; FMT_DSD1 alone is taken as LSB | BIG.
WireIsLSB(wire) == wire \in {"LSB_BIG", "LSB_LITTLE", "DSD1"}
WireIsLittle(wire) == wire \in {"LSB_LITTLE", "MSB_LITTLE"}
\* lines 851, 870, 889, 908, 924.
DsdNeedsBitReversal(sourceIsLSB, wire) ==
  IF WireIsLSB(wire) THEN ~sourceIsLSB ELSE sourceIsLSB
\* lines 852, 871, 890, 909, 925.
DsdNeedsByteSwap(wire) == WireIsLittle(wire)
\* lines 854-856, 873-875, 892-894, 911-913, 930-940.
DSDConversionMode(needReverse, needSwap) ==
  IF needReverse /\ needSwap THEN "BitReverseAndSwap"
  ELSE IF needReverse THEN "BitReverseOnly"
  ELSE IF needSwap THEN "ByteSwapOnly"
  ELSE "Passthrough"

\* lines 517-543: the mode flag, configureSinkPCM/DSD (which throws when the sink
\* supports no candidate), then configureRing*'s mutex and beginReconfigure.
Open_Configure(supported) ==
  /\ pcC = "cfg"
  /\ supported \subseteq SinkCandidates(cOp.fmt.isDSD)
  /\ m_isDsdMode' = cOp.fmt.isDSD
  /\ sinkSupport' = supported
  /\ LET wire == SinkAccepts(IF cOp.fmt.isDSD THEN DsdSinkOrder ELSE PcmSinkOrder, supported)
     IN
     IF wire # "none"
       THEN /\ configMutex' = "control"
            /\ m_reconfiguring' = TRUE
            /\ pcC' = "cr_gate"
            /\ sinkFormat' = wire
            /\ IF cOp.fmt.isDSD
                 THEN /\ m_needDsdBitReversal' = DsdNeedsBitReversal(cOp.fmt.dsf, wire)
                      /\ m_needDsdByteSwap' = DsdNeedsByteSwap(wire)
                      /\ m_dsdConversionMode' =
                           DSDConversionMode(DsdNeedsBitReversal(cOp.fmt.dsf, wire),
                                             DsdNeedsByteSwap(wire))
                 ELSE UNCHANGED <<m_needDsdBitReversal, m_needDsdByteSwap,
                                  m_dsdConversionMode>>
            /\ UNCHANGED <<cRet, m_need24BitPack, m_need16To32Upsample, m_channels,
                           m_bytesPerSample>>
       ELSE /\ pcC' = "ret"
            /\ cRet' = "throw"
            /\ UNCHANGED <<configMutex, m_reconfiguring, m_needDsdBitReversal,
                           m_needDsdByteSwap, m_dsdConversionMode, sinkFormat,
                           m_need24BitPack, m_need16To32Upsample, m_channels,
                           m_bytesPerSample>>
  /\ UNCHANGED <<flagVars, workerVars, m_sampleRate, m_bytesPerBuffer, m_prefillTarget,
                 m_ringBuffer, m_ringUsers, playVars,
                 sdkVars, cOp, prodVars, consVars, pcB, cycleVars, adapterVars, cacheVars, histVars>>

ConfigureRing_Gate ==
  /\ pcC = "cr_gate"
  /\ GateWaitOver
  /\ pcC' = "cr_body"
  /\ UNCHANGED <<flagVars, workerVars, geomVars, m_ringBuffer, gateVars, playVars,
                 sdkVars, cOp, cRet, prodVars, consVars, pcB, cycleVars, adapterVars, cacheVars, histVars>>

\* The arguments of configureRingPCM(rate, channels, direttaBps, inputBps) and
\* of configureRingDSD(byteRate, channels): PCM from telephone rate to 384 kHz,
\* DSD64 to DSD512, mono to eight channels.
RingArguments ==
  [isDsd : {FALSE}, channels : {1, 2, 6, 8}, bps : {2, 3, 4},
   rate : {8000, 11025, 22050, 32000, 44100, 48000, 96000, 192000, 384000}]
    \cup [isDsd : {TRUE}, channels : {1, 2, 6, 8}, bps : {1},
          rate : {352800, 705600, 1411200, 2822400}]
NoRingArgs == [isDsd |-> FALSE, rate |-> 0, channels |-> 0, bps |-> 0]
\* configureRingPCM line 977.
PcmBytesPerBuffer(rate, channels, direttaBps) ==
  ((rate + 999) \div 1000) * channels * direttaBps
\* configureRingDSD line 1011.
DsdMinBytesPerBuffer == 64
\* configureRingDSD lines 1008-1011.
DsdBytesPerBuffer(byteRate, channels) ==
  LET inputBytesPerMs == (byteRate \div 1000) * channels
      rounded == ((inputBytesPerMs + (4 * channels - 1)) \div (4 * channels)) * (4 * channels)
  IN  IF rounded < DsdMinBytesPerBuffer THEN DsdMinBytesPerBuffer ELSE rounded
\* The cycle size configureRing* stores in m_bytesPerBuffer for its arguments.
ConfigureRing_Cycle(args) ==
  /\ ringArgs' = args
  /\ cycleBytes' = IF args.isDsd THEN DsdBytesPerBuffer(args.rate, args.channels)
                   ELSE PcmBytesPerBuffer(args.rate, args.channels, args.bps)
  /\ UNCHANGED <<flagVars, workerVars, geomVars, m_ringBuffer, gateVars, playVars,
                 sdkVars, ctlVars, prodVars, consVars, pcB, adapterVars, cacheVars, histVars>>

\* Scaled geometry of configureRingPCM (971-982) and configureRingDSD (1002-1016).
RingUnitsFor(isDsd) == IF isDsd THEN DsdRingUnits ELSE PcmRingUnits
CycleUnitsFor(isDsd) == IF isDsd THEN DsdCycleUnits ELSE PcmCycleUnits
SilenceByteFor(isDsd) == IF isDsd THEN DsdSilenceByte ELSE PcmSilenceByte
PrefillTargetFor(ringSize) == Min(PrefillUnits, ringSize \div 4)

\* open() lines 538-539: bytes per sample on the wire and in the producer's input.
DirettaBps(wire) == IF wire = "PCM32" THEN 4 ELSE IF wire = "PCM24" THEN 3 ELSE 2
InputBps(bitDepth) == IF bitDepth \in {32, 24} THEN 4 ELSE 2
\* configureRingPCM lines 960-961.
Need24BitPack(direttaBps, inputBps) == direttaBps = 3 /\ inputBps = 4
Need16To32Upsample(direttaBps, inputBps) == direttaBps = 4 /\ inputBps = 2

\* configureRing* under the gate, then lines 546-601: setSink with retries and
\* the connect sequence.
ConfigureRing_Body(sinkFails, prepOk, connFails, waitOk) ==
  /\ pcC = "cr_body"
  /\ m_sampleRate' = IF cOp.fmt.isDSD THEN m_sampleRate ELSE cOp.fmt.sampleRate
  /\ m_isDsdMode' = cOp.fmt.isDSD
  /\ m_ringBuffer' = RingResize(RingUnitsFor(cOp.fmt.isDSD), SilenceByteFor(cOp.fmt.isDSD))
  /\ m_bytesPerBuffer' = CycleUnitsFor(cOp.fmt.isDSD)
  /\ m_prefillTarget' = PrefillTargetFor(RingUnitsFor(cOp.fmt.isDSD))
  \* configureRingPCM 963-966 resets the DSD conversion; configureRingDSD keeps it.
  /\ IF cOp.fmt.isDSD
       THEN /\ m_need24BitPack' = FALSE
            /\ m_need16To32Upsample' = FALSE
            /\ UNCHANGED <<m_needDsdBitReversal, m_needDsdByteSwap, m_dsdConversionMode,
                           m_bytesPerSample>>
       ELSE /\ m_bytesPerSample' = DirettaBps(sinkFormat)
            /\ m_need24BitPack' = Need24BitPack(DirettaBps(sinkFormat), InputBps(cOp.fmt.bitDepth))
            /\ m_need16To32Upsample' =
                 Need16To32Upsample(DirettaBps(sinkFormat), InputBps(cOp.fmt.bitDepth))
            /\ m_needDsdBitReversal' = FALSE
            /\ m_needDsdByteSwap' = FALSE
            /\ m_dsdConversionMode' = "Passthrough"
  /\ m_channels' = cOp.fmt.channels
  \* lines 969 and 1000, m_formatGeneration.fetch_add(1): whatever generation
  \* the producer cached, the shared one now differs from it.
  /\ m_formatGenerationAhead' = TRUE
  /\ UNCHANGED <<sinkFormat, sinkSupport, m_cached>>
  /\ m_prefillComplete' = FALSE
  /\ m_reconfiguring' = FALSE
  /\ configMutex' = "free"
  /\ LET sinkOk == RetryOk(sinkFails, SETSINK_RETRIES_FULL)
         connOk == RetryOk(connFails, CONNECT_RETRIES)
         log1 == tlog \o RetryCalls("set_sink_format", sinkFails, SETSINK_RETRIES_FULL)
         log2 == log1 \o <<"connect_prepare">>
         log3 == log2 \o RetryCalls("connect", connFails, CONNECT_RETRIES)
         log4 == log3 \o <<"connect_wait">>
     IN  IF ~sinkOk
           THEN /\ tlog' = log1
                /\ pcC' = "ret" /\ cRet' = "fail"
                /\ UNCHANGED connected
         ELSE IF ~prepOk
           THEN /\ tlog' = log2
                /\ pcC' = "ret" /\ cRet' = "fail"
                /\ UNCHANGED connected
         ELSE IF ~connOk
           THEN /\ tlog' = log3
                /\ pcC' = "ret" /\ cRet' = "fail"
                /\ UNCHANGED connected
         ELSE IF ~waitOk
           THEN /\ tlog' = log4 \o <<"disconnect">>
                /\ pcC' = "ret" /\ cRet' = "fail"
                /\ connected' = FALSE
         ELSE /\ tlog' = log4
              /\ pcC' = "op_clear"
              /\ UNCHANGED cRet
              /\ connected' = TRUE
  /\ UNCHANGED <<flagVars, workerVars, m_ringUsers,
                 m_stopRequested, m_draining, m_silenceBuffersRemaining,
                 m_postOnlineDelayDone, m_stabilizationCount, m_workerActive,
                 m_underrunCount, sessionOpen, tPlaying, online, cOp,
                 prodVars, consVars, pcB, cycleVars, adapterVars, histVars>>

\* lines 603-608.
Open_ClearAndPlay ==
  /\ pcC = "op_clear"
  /\ m_ringBuffer' = RingClear(m_ringBuffer)
  /\ m_prefillComplete' = FALSE
  /\ m_postOnlineDelayDone' = FALSE
  /\ warmupSinceOpen' = 0
  /\ tlog' = tlog \o <<"play">>
  /\ tPlaying' = TRUE
  /\ pcC' = "op_online"
  /\ UNCHANGED <<flagVars, workerVars, geomVars, gateVars,
                 m_stopRequested, m_draining, m_silenceBuffersRemaining,
                 m_stabilizationCount, m_workerActive, m_underrunCount,
                 sessionOpen, connected, online, cOp, cRet,
                 prodVars, consVars, pcB, cycleVars, adapterVars, cacheVars, closedSinceOpen, wStartedClosed>>

\* lines 610-627: waitForOnline returned (online or timed out).
Open_Finish ==
  /\ pcC = "op_online"
  /\ m_postOnlineDelayDone' = FALSE
  /\ m_stabilizationCount' = 0
  /\ m_previousFormat' = cOp.fmt
  /\ m_hasPreviousFormat' = TRUE
  /\ m_open' = TRUE
  /\ m_playing' = TRUE
  /\ m_paused' = FALSE
  /\ pcC' = "ret"
  /\ cRet' = "ok"
  /\ UNCHANGED <<m_enabled, m_sdkOpen, workerVars, geomVars, m_ringBuffer, gateVars,
                 m_stopRequested, m_draining, m_silenceBuffersRemaining,
                 m_prefillComplete, m_workerActive, m_underrunCount,
                 sdkVars, cOp, prodVars, consVars, pcB, cycleVars, adapterVars, cacheVars, histVars>>

\* Fast path: the wait of lines 358-362 is over (drained or 100 ms passed).
Open_FastWait ==
  /\ pcC = "fp_wait"
  /\ \E expired \in BOOLEAN : SilenceWaitOver(expired)
  /\ pcC' = "fp_clear"
  /\ UNCHANGED <<flagVars, workerVars, geomVars, m_ringBuffer, gateVars, playVars,
                 sdkVars, cOp, cRet, prodVars, consVars, pcB, cycleVars, adapterVars, cacheVars, histVars>>

\* Fast path, lines 365-377.
Open_FastFinish ==
  /\ pcC = "fp_clear"
  /\ m_ringBuffer' = RingClear(m_ringBuffer)
  /\ m_prefillComplete' = FALSE
  /\ m_postOnlineDelayDone' = FALSE
  /\ m_stabilizationCount' = 0
  /\ m_stopRequested' = FALSE
  /\ m_draining' = FALSE
  /\ m_silenceBuffersRemaining' = 0
  /\ warmupSinceOpen' = 0
  /\ tlog' = tlog \o <<"play">>
  /\ tPlaying' = TRUE
  /\ m_playing' = TRUE
  /\ m_paused' = FALSE
  /\ pcC' = "ret"
  /\ cRet' = "ok"
  /\ UNCHANGED <<m_enabled, m_open, m_sdkOpen, m_hasPreviousFormat, m_previousFormat,
                 workerVars, geomVars, gateVars, m_workerActive, m_underrunCount,
                 sessionOpen, connected, online, cOp,
                 prodVars, consVars, pcB, cycleVars, adapterVars, cacheVars, closedSinceOpen, wStartedClosed>>

\* close(), lines 633-639.  release() and disable() run it first when a stream
\* is open (cont names the caller to go back to).
Close_Begin(name) ==
  /\ m_silenceBuffersRemaining' = ShutdownSilenceCount(IF m_isDsdMode THEN 50 ELSE 20)
  /\ m_draining' = TRUE
  /\ cOp' = [name |-> name, fmt |-> NoFormat, path |-> "none", cont |-> name]
  /\ pcC' = "cl_wait"
  /\ UNCHANGED <<cRet, flagVars, workerVars, sdkVars, histVars>>

Close_Call ==
  /\ pcC = "idle"
  /\ IF m_open
       THEN Close_Begin("close")
       ELSE /\ pcC' = "ret"
            /\ cRet' = "ok"
            /\ cOp' = [NoOp EXCEPT !.name = "close"]
            /\ UNCHANGED <<m_silenceBuffersRemaining, m_draining,
                           flagVars, workerVars, sdkVars, histVars>>
  /\ UNCHANGED <<geomVars, m_ringBuffer, gateVars, m_stopRequested,
                 m_prefillComplete, m_postOnlineDelayDone, m_stabilizationCount,
                 m_workerActive, m_underrunCount, prodVars, consVars, pcB, cycleVars, adapterVars, cacheVars>>

\* lines 641-653: the silence wait is over (drained or 150 ms passed);
\* m_stopRequested = true; stop(); disconnect(true).
Close_Stop ==
  /\ pcC = "cl_wait"
  /\ \E expired \in BOOLEAN : SilenceWaitOver(expired)
  /\ m_stopRequested' = TRUE
  /\ tlog' = tlog \o <<"stop", "disconnect">>
  /\ tPlaying' = FALSE
  /\ connected' = FALSE
  /\ online' = FALSE
  /\ pcC' = "cl_worker"
  /\ UNCHANGED <<flagVars, workerVars, geomVars, m_ringBuffer, gateVars,
                 m_draining, m_silenceBuffersRemaining, m_prefillComplete,
                 m_postOnlineDelayDone, m_stabilizationCount, m_workerActive,
                 m_underrunCount, sessionOpen, cOp, cRet,
                 prodVars, consVars, pcB, cycleVars, adapterVars, cacheVars, histVars>>

\* lines 655-665: the bounded wait for m_workerActive, then the flags.
Close_Finish ==
  /\ pcC = "cl_worker"
  /\ m_open' = FALSE
  /\ m_playing' = FALSE
  /\ m_paused' = FALSE
  /\ closedSinceOpen' = TRUE
  /\ IF cOp.cont = "close"
       THEN /\ pcC' = "ret"
            /\ cRet' = "ok"
       ELSE /\ pcC' = IF cOp.cont = "release" THEN "rl_tail" ELSE "di_tail"
            /\ UNCHANGED cRet
  /\ UNCHANGED <<m_enabled, m_sdkOpen, m_hasPreviousFormat, m_previousFormat,
                 workerVars, geomVars, m_ringBuffer, gateVars, playVars,
                 sdkVars, cOp, prodVars, consVars, pcB, cycleVars, adapterVars, cacheVars, wStartedClosed, warmupSinceOpen>>

\* A release that leaves the format state as it is.
ReleaseKeepsPreviousFormat == m_hasPreviousFormat
\* line 700: release() clears the format state so the next open() starts fresh.
ReleasedHasPreviousFormat == FALSE

\* release(), lines 668-674.
Release_Call ==
  /\ pcC = "idle"
  /\ IF m_open
       THEN Close_Begin("release")
       ELSE /\ pcC' = "rl_tail"
            /\ cOp' = [NoOp EXCEPT !.name = "release"]
            /\ UNCHANGED <<cRet, m_silenceBuffersRemaining, m_draining,
                           flagVars, workerVars, sdkVars, histVars>>
  /\ UNCHANGED <<geomVars, m_ringBuffer, gateVars, m_stopRequested,
                 m_prefillComplete, m_postOnlineDelayDone, m_stabilizationCount,
                 m_workerActive, m_underrunCount, prodVars, consVars, pcB, cycleVars, adapterVars, cacheVars>>

\* lines 677-681, or line 700 alone when the session is already released.
Release_Tail ==
  /\ pcC = "rl_tail"
  /\ IF m_sdkOpen
       THEN /\ m_running' = FALSE
            /\ pcC' = "rl_join"
            /\ UNCHANGED <<m_hasPreviousFormat, cRet>>
       ELSE /\ m_hasPreviousFormat' = ReleasedHasPreviousFormat
            /\ pcC' = "ret"
            /\ cRet' = "ok"
            /\ UNCHANGED m_running
  /\ UNCHANGED <<m_enabled, m_open, m_playing, m_paused, m_sdkOpen, m_previousFormat,
                 workerJoinable, geomVars, m_ringBuffer, gateVars, playVars,
                 sdkVars, cOp, prodVars, consVars, pcB, cycleVars, adapterVars, cacheVars, histVars>>

\* lines 682-700: join, close the session, forget the format.
Release_Join ==
  /\ pcC = "rl_join"
  /\ WorkerJoinReturns
  /\ workerJoinable' = FALSE
  /\ tlog' = tlog \o <<"close_session">>
  /\ sessionOpen' = FALSE
  /\ connected' = FALSE
  /\ tPlaying' = FALSE
  /\ online' = FALSE
  /\ m_sdkOpen' = FALSE
  /\ m_hasPreviousFormat' = ReleasedHasPreviousFormat
  /\ pcC' = "ret"
  /\ cRet' = "ok"
  /\ UNCHANGED <<m_enabled, m_open, m_playing, m_paused, m_previousFormat, m_running,
                 geomVars, m_ringBuffer, gateVars, playVars,
                 cOp, prodVars, consVars, pcB, cycleVars, adapterVars, cacheVars, histVars>>

\* disable(), lines 91-96.
Disable_Call ==
  /\ pcC = "idle"
  /\ IF m_open
       THEN Close_Begin("disable")
       ELSE /\ pcC' = "di_tail"
            /\ cOp' = [NoOp EXCEPT !.name = "disable"]
            /\ UNCHANGED <<cRet, m_silenceBuffersRemaining, m_draining,
                           flagVars, workerVars, sdkVars, histVars>>
  /\ UNCHANGED <<geomVars, m_ringBuffer, gateVars, m_stopRequested,
                 m_prefillComplete, m_postOnlineDelayDone, m_stabilizationCount,
                 m_workerActive, m_underrunCount, prodVars, consVars, pcB, cycleVars, adapterVars, cacheVars>>

\* line 98 and shutdownWorker's stores (1370-1371), or lines 106-107 alone.
Disable_Tail ==
  /\ pcC = "di_tail"
  /\ IF m_enabled
       THEN /\ m_stopRequested' = TRUE
            /\ m_running' = FALSE
            /\ pcC' = "di_join"
            /\ UNCHANGED <<m_hasPreviousFormat, cRet>>
       ELSE /\ m_hasPreviousFormat' = FALSE
            /\ pcC' = "ret"
            /\ cRet' = "ok"
            /\ UNCHANGED <<m_stopRequested, m_running>>
  /\ UNCHANGED <<m_enabled, m_open, m_playing, m_paused, m_sdkOpen, m_previousFormat,
                 workerJoinable, geomVars, m_ringBuffer, gateVars,
                 m_draining, m_silenceBuffersRemaining, m_prefillComplete,
                 m_postOnlineDelayDone, m_stabilizationCount, m_workerActive,
                 m_underrunCount, sdkVars, cOp, prodVars, consVars, pcB, cycleVars, adapterVars, cacheVars, histVars>>

\* shutdownWorker's join (1373-1382), then lines 100-107.
Disable_Join ==
  /\ pcC = "di_join"
  /\ WorkerJoinReturns
  /\ workerJoinable' = FALSE
  /\ tlog' = tlog \o <<"close_session">>
  /\ sessionOpen' = FALSE
  /\ connected' = FALSE
  /\ tPlaying' = FALSE
  /\ online' = FALSE
  /\ m_sdkOpen' = FALSE
  /\ m_enabled' = FALSE
  /\ m_hasPreviousFormat' = FALSE
  /\ pcC' = "ret"
  /\ cRet' = "ok"
  /\ UNCHANGED <<m_open, m_playing, m_paused, m_previousFormat, m_running,
                 geomVars, m_ringBuffer, gateVars, playVars,
                 cOp, prodVars, consVars, pcB, cycleVars, adapterVars, cacheVars, histVars>>

\* measureMTU (189-227): a failed probe leaves the fallback MTU in place.
MtuCalls(mtuOk) ==
  IF mtuOk THEN <<"measure_mtu">> ELSE <<"measure_mtu", "mtu_fallback">>

\* enable(), lines 61-89, with openSyncConnection (110-140).
Enable_Call(found, mtuOk, sdkFails) ==
  /\ pcC = "idle"
  /\ cOp' = [NoOp EXCEPT !.name = "enable"]
  /\ pcC' = "ret"
  /\ IF m_enabled
       THEN /\ cRet' = "ok"
            /\ UNCHANGED <<m_enabled, m_sdkOpen, sessionOpen, tlog>>
       ELSE IF ~found
         THEN /\ cRet' = "fail"
              /\ tlog' = <<"discover">>
              /\ UNCHANGED <<m_enabled, m_sdkOpen, sessionOpen>>
       ELSE IF ~RetryOk(sdkFails, OPEN_RETRIES)
         THEN /\ cRet' = "fail"
              /\ tlog' = <<"discover">> \o MtuCalls(mtuOk)
                           \o RetryCalls("open_session", sdkFails, OPEN_RETRIES)
              /\ UNCHANGED <<m_enabled, m_sdkOpen, sessionOpen>>
       ELSE /\ cRet' = "ok"
            /\ tlog' = <<"discover">> \o MtuCalls(mtuOk)
                         \o RetryCalls("open_session", sdkFails, OPEN_RETRIES)
                         \o <<"query_caps">>
            /\ m_enabled' = TRUE
            /\ m_sdkOpen' = TRUE
            /\ sessionOpen' = TRUE
  /\ UNCHANGED <<m_open, m_playing, m_paused, m_hasPreviousFormat, m_previousFormat,
                 workerVars, geomVars, m_ringBuffer, gateVars, playVars,
                 connected, tPlaying, online, prodVars, consVars, pcB, cycleVars, adapterVars, cacheVars, histVars>>

\* resumePlayback's body, lines 1086-1096.
ResumeEffects ==
  /\ m_draining' = FALSE
  /\ m_stopRequested' = FALSE
  /\ m_silenceBuffersRemaining' = 0
  /\ m_ringBuffer' = RingClear(m_ringBuffer)
  /\ m_prefillComplete' = FALSE
  /\ tlog' = <<"play">>
  /\ tPlaying' = TRUE
  /\ m_paused' = FALSE
  /\ m_playing' = TRUE

\* resumePlayback(), lines 1080-1099.
Resume_Call ==
  /\ pcC = "idle"
  /\ cOp' = [NoOp EXCEPT !.name = "resume"]
  /\ pcC' = "ret"
  /\ cRet' = "ok"
  /\ IF m_paused
       THEN ResumeEffects
       ELSE UNCHANGED <<m_draining, m_stopRequested, m_silenceBuffersRemaining,
                        m_ringBuffer, m_prefillComplete, tlog, tPlaying, m_paused, m_playing>>
  /\ UNCHANGED <<m_enabled, m_open, m_sdkOpen, m_hasPreviousFormat, m_previousFormat,
                 workerVars, geomVars, gateVars, m_postOnlineDelayDone,
                 m_stabilizationCount, m_workerActive, m_underrunCount,
                 sessionOpen, connected, online, prodVars, consVars, pcB, cycleVars, adapterVars, cacheVars, histVars>>

\* A startPlayback() that never refuses.
StartNeverRefused == FALSE
\* line 1027: if (!m_open) return false;
StartRefused == ~m_open

\* startPlayback(), lines 1026-1039.
Start_Call ==
  /\ pcC = "idle"
  /\ cOp' = [NoOp EXCEPT !.name = "start"]
  /\ pcC' = "ret"
  /\ IF StartRefused
       THEN /\ cRet' = "fail"
            /\ UNCHANGED <<m_draining, m_stopRequested, m_silenceBuffersRemaining,
                           m_ringBuffer, m_prefillComplete, tlog, tPlaying, m_paused,
                           m_playing>>
       ELSE /\ cRet' = "ok"
            /\ IF m_playing /\ ~m_paused
                 THEN UNCHANGED <<m_draining, m_stopRequested, m_silenceBuffersRemaining,
                                  m_ringBuffer, m_prefillComplete, tlog, tPlaying,
                                  m_paused, m_playing>>
                 ELSE IF m_paused
                   THEN ResumeEffects
                   ELSE /\ tlog' = <<"play">>
                        /\ tPlaying' = TRUE
                        /\ m_playing' = TRUE
                        /\ m_paused' = FALSE
                        /\ UNCHANGED <<m_draining, m_stopRequested,
                                       m_silenceBuffersRemaining, m_ringBuffer,
                                       m_prefillComplete>>
  /\ UNCHANGED <<m_enabled, m_open, m_sdkOpen, m_hasPreviousFormat, m_previousFormat,
                 workerVars, geomVars, gateVars, m_postOnlineDelayDone,
                 m_stabilizationCount, m_workerActive, m_underrunCount,
                 sessionOpen, connected, online, prodVars, consVars, pcB, cycleVars, adapterVars, cacheVars, histVars>>

\* stopPlayback(immediate), lines 1041-1052.
Stop_Call(immediate) ==
  /\ pcC = "idle"
  /\ cOp' = [NoOp EXCEPT !.name = "stop"]
  /\ m_underrunCount' = 0
  /\ IF ~m_playing
       THEN /\ pcC' = "ret"
            /\ cRet' = "ok"
            /\ UNCHANGED <<m_silenceBuffersRemaining, m_draining, tlog, tPlaying,
                           m_playing, m_paused>>
       ELSE IF immediate
         THEN /\ tlog' = <<"stop">>
              /\ tPlaying' = FALSE
              /\ m_playing' = FALSE
              /\ m_paused' = FALSE
              /\ pcC' = "ret"
              /\ cRet' = "ok"
              /\ UNCHANGED <<m_silenceBuffersRemaining, m_draining>>
         ELSE /\ m_silenceBuffersRemaining' =
                   ShutdownSilenceCount(IF m_isDsdMode THEN 50 ELSE 20)
              /\ m_draining' = TRUE
              /\ pcC' = "sp_wait"
              /\ UNCHANGED <<cRet, tlog, tPlaying, m_playing, m_paused>>
  /\ UNCHANGED <<m_enabled, m_open, m_sdkOpen, m_hasPreviousFormat, m_previousFormat,
                 workerVars, geomVars, m_ringBuffer, gateVars, m_stopRequested,
                 m_prefillComplete, m_postOnlineDelayDone, m_stabilizationCount,
                 m_workerActive, sessionOpen, connected, online,
                 prodVars, consVars, pcB, cycleVars, adapterVars, cacheVars, histVars>>

\* lines 1053-1062: the silence wait is over; stop().
Stop_Finish ==
  /\ pcC = "sp_wait"
  /\ \E expired \in BOOLEAN : SilenceWaitOver(expired)
  /\ tlog' = tlog \o <<"stop">>
  /\ tPlaying' = FALSE
  /\ m_playing' = FALSE
  /\ m_paused' = FALSE
  /\ pcC' = "ret"
  /\ cRet' = "ok"
  /\ UNCHANGED <<m_enabled, m_open, m_sdkOpen, m_hasPreviousFormat, m_previousFormat,
                 workerVars, geomVars, m_ringBuffer, gateVars, playVars,
                 sessionOpen, connected, online, cOp, prodVars, consVars, pcB, cycleVars, adapterVars, cacheVars, histVars>>

\* stopPlayback(true), lines 1041-1063, called as a whole by a second thread
\* while the control thread may be inside a call of its own: no lock is taken
\* on entry.  Its transport call is logged as "stop@other".
Stop_Other ==
  /\ m_underrunCount' = 0
  /\ IF ~m_playing
       THEN UNCHANGED <<tlog, tPlaying, m_playing, m_paused>>
       ELSE /\ tlog' = tlog \o <<"stop@other">>
            /\ tPlaying' = FALSE
            /\ m_playing' = FALSE
            /\ m_paused' = FALSE
  /\ UNCHANGED <<m_enabled, m_open, m_sdkOpen, m_hasPreviousFormat, m_previousFormat,
                 workerVars, geomVars, m_ringBuffer, gateVars, m_stopRequested,
                 m_draining, m_silenceBuffersRemaining,
                 m_prefillComplete, m_postOnlineDelayDone, m_stabilizationCount,
                 m_workerActive, sessionOpen, connected, online,
                 ctlVars, prodVars, consVars, pcB, cycleVars, adapterVars, cacheVars, histVars>>

\* pausePlayback(), lines 1065-1068.
Pause_Call ==
  /\ pcC = "idle"
  /\ cOp' = [NoOp EXCEPT !.name = "pause"]
  /\ IF ~m_playing \/ m_paused
       THEN /\ pcC' = "ret"
            /\ cRet' = "ok"
            /\ UNCHANGED <<m_silenceBuffersRemaining, m_draining>>
       ELSE /\ m_silenceBuffersRemaining' =
                 ShutdownSilenceCount(IF m_isDsdMode THEN 30 ELSE 10)
            /\ m_draining' = TRUE
            /\ pcC' = "pa_wait"
            /\ UNCHANGED cRet
  /\ UNCHANGED <<flagVars, workerVars, geomVars, m_ringBuffer, gateVars, m_stopRequested,
                 m_prefillComplete, m_postOnlineDelayDone, m_stabilizationCount,
                 m_workerActive, m_underrunCount, sdkVars, prodVars, consVars, pcB, cycleVars, adapterVars, cacheVars,
                 histVars>>

\* lines 1070-1077: the silence wait is over; stop(); m_paused = true.
Pause_Finish ==
  /\ pcC = "pa_wait"
  /\ \E expired \in BOOLEAN : SilenceWaitOver(expired)
  /\ tlog' = tlog \o <<"stop">>
  /\ tPlaying' = FALSE
  /\ m_paused' = TRUE
  /\ pcC' = "ret"
  /\ cRet' = "ok"
  /\ UNCHANGED <<m_enabled, m_open, m_playing, m_sdkOpen, m_hasPreviousFormat,
                 m_previousFormat, workerVars, geomVars, m_ringBuffer, gateVars, playVars,
                 sessionOpen, connected, online, cOp, prodVars, consVars, pcB, cycleVars, adapterVars, cacheVars, histVars>>

\* The public call has returned to its caller.
Control_Return ==
  /\ pcC = "ret"
  /\ pcC' = "idle"
  /\ cOp' = NoOp
  /\ cRet' = "none"
  /\ tlog' = <<>>
  /\ UNCHANGED <<flagVars, workerVars, geomVars, m_ringBuffer, gateVars, playVars,
                 sessionOpen, connected, tPlaying, online,
                 prodVars, consVars, pcB, cycleVars, adapterVars, cacheVars, histVars>>

\* ------------------------------------------------------- the SDK (environment)
\* startSyncWorker(), lines 1326-1352, called by the SDK while its session is open.
StartSyncWorker ==
  /\ sessionOpen
  /\ ~(m_running /\ workerJoinable)
  /\ WorkerJoinReturns
  /\ m_running' = TRUE
  /\ m_stopRequested' = FALSE
  /\ workerJoinable' = TRUE
  /\ UNCHANGED <<flagVars, geomVars, m_ringBuffer, gateVars,
                 m_draining, m_silenceBuffersRemaining, m_prefillComplete,
                 m_postOnlineDelayDone, m_stabilizationCount, m_workerActive,
                 m_underrunCount, sdkVars, ctlVars, prodVars, consVars, pcB, cycleVars, adapterVars, cacheVars, histVars>>

\* is_online() turns true once connected and playing ...
Sdk_Online ==
  /\ connected /\ tPlaying /\ ~online
  /\ online' = TRUE
  /\ UNCHANGED <<flagVars, workerVars, geomVars, m_ringBuffer, gateVars, playVars,
                 sessionOpen, connected, tPlaying, tlog,
                 ctlVars, prodVars, consVars, pcB, cycleVars, adapterVars, cacheVars, histVars>>

\* ... and may drop at any time.
Sdk_Offline ==
  /\ online
  /\ online' = FALSE
  /\ UNCHANGED <<flagVars, workerVars, geomVars, m_ringBuffer, gateVars, playVars,
                 sessionOpen, connected, tPlaying, tlog,
                 ctlVars, prodVars, consVars, pcB, cycleVars, adapterVars, cacheVars, histVars>>

\* ------------------------------------------------------------ specification
\* The state after the constructor (lines 47-50) and the member initialisers.
\* ------------------------------------------- the control adapter: UPnPDevice
\* The URIs a control point or the audio engine names.
Tracks == {"a", "b", "c"}

\* Everything of the audio core, which the adapter's bookkeeping never touches.
coreVars == <<flagVars, workerVars, geomVars, m_ringBuffer, gateVars, playVars,
                 sdkVars, ctlVars, prodVars, consVars, pcB, cycleVars, cacheVars, histVars>>

\* The DIDL-Lite metadata strings a control point or the engine passes.
Metadata == {"", "didl"}

\* No SetAVTransportURI request is being served.
NoRequest ==
  [pc |-> "idle", uri |-> "", metadata |-> "", err |-> 0,
   cleared |-> FALSE, called |-> FALSE, evented |-> FALSE]

\* A handler that leaves the gapless queue as it found it.
GaplessQueueKept(queued) == queued

\* lines 496-499: the gapless queue after SetAVTransportURI (cleared if set).
GaplessQueueAfterSetURI(queued) == IF queued # "" THEN "" ELSE queued

\* actionSetAVTransportURI, lines 472-501: an empty URI is refused (402);
\* otherwise the track data is replaced under m_stateMutex.
ActionSetAVTransportURI(uri, metadata) ==
  /\ setURIRequest.pc = "idle"
  /\ IF uri = ""
       THEN /\ setURIRequest' = [NoRequest EXCEPT !.metadata = metadata, !.err = 402]
            /\ UNCHANGED <<m_currentTrackURI, m_currentPosition, m_trackDuration,
                           m_trackEpoch, m_currentURI, m_currentMetadata,
                           m_nextURI, m_nextMetadata>>
       ELSE /\ m_currentURI' = uri
            /\ m_currentMetadata' = metadata
            /\ m_currentTrackURI' = uri
            /\ m_currentPosition' = 0
            /\ m_trackDuration' = 0
            /\ m_nextURI' = GaplessQueueAfterSetURI(m_nextURI)
            /\ m_nextMetadata' = IF m_nextURI # "" THEN "" ELSE m_nextMetadata
            /\ setURIRequest' = [NoRequest EXCEPT !.pc = "callback", !.uri = uri,
                                                  !.metadata = metadata,
                                                  !.cleared = (m_nextURI # "")]
            /\ UNCHANGED m_trackEpoch
  /\ UNCHANGED coreVars

\* lines 503-506: m_callbacks.onSetURI(uri, metadata).
ActionSetAVTransportURI_Callback ==
  /\ setURIRequest.pc = "callback"
  /\ setURIRequest' = [setURIRequest EXCEPT !.pc = "event", !.called = TRUE]
  /\ UNCHANGED <<m_currentTrackURI, m_currentPosition, m_trackDuration, m_trackEpoch,
                 m_currentURI, m_currentMetadata, m_nextURI, m_nextMetadata>>
  /\ UNCHANGED coreVars

\* lines 508-515: sendAVTransportEvent(), the response and the return.
ActionSetAVTransportURI_Event ==
  /\ setURIRequest.pc = "event"
  /\ setURIRequest' = [setURIRequest EXCEPT !.pc = "idle", !.evented = TRUE]
  /\ UNCHANGED <<m_currentTrackURI, m_currentPosition, m_trackDuration, m_trackEpoch,
                 m_currentURI, m_currentMetadata, m_nextURI, m_nextMetadata>>
  /\ UNCHANGED coreVars

\* actionSetNextAVTransportURI, lines 518-545: queue the next track.
ActionSetNextAVTransportURI(uri, metadata) ==
  /\ m_nextURI' = uri
  /\ m_nextMetadata' = metadata
  /\ UNCHANGED <<m_currentTrackURI, m_currentPosition, m_trackDuration, m_trackEpoch,
                 m_currentURI, m_currentMetadata, setURIRequest>>
  /\ UNCHANGED coreVars

\* notifyTrackChange, lines 1925-1934.
NotifyTrackChange(uri, metadata) ==
  /\ m_currentURI' = uri
  /\ m_currentMetadata' = metadata
  /\ m_currentTrackURI' = uri
  /\ m_currentPosition' = 0
  /\ m_nextURI' = ""
  /\ m_nextMetadata' = ""
  /\ UNCHANGED <<m_trackDuration, m_trackEpoch, setURIRequest>>
  /\ UNCHANGED coreVars

\* notifyGaplessTransition, lines 1941-1958.
NotifyGaplessTransition(uri, metadata, durationSeconds) ==
  /\ m_trackEpoch < MaxEpoch
  /\ m_currentURI' = uri
  /\ m_currentMetadata' = metadata
  /\ m_currentTrackURI' = uri
  /\ m_currentPosition' = 0
  /\ m_trackDuration' = durationSeconds
  /\ m_nextURI' = ""
  /\ m_nextMetadata' = ""
  /\ m_trackEpoch' = m_trackEpoch + 1
  /\ UNCHANGED setURIRequest
  /\ UNCHANGED coreVars

\* notifyPositionChange, lines 1962-1966.
NotifyPositionChange(seconds, duration) ==
  /\ m_currentPosition' = seconds
  /\ m_trackDuration' = duration
  /\ UNCHANGED <<m_currentTrackURI, m_trackEpoch, m_currentURI, m_currentMetadata,
                 m_nextURI, m_nextMetadata, setURIRequest>>
  /\ UNCHANGED coreVars

Init ==
  /\ m_enabled = FALSE /\ m_open = FALSE /\ m_playing = FALSE /\ m_paused = FALSE
  /\ m_sdkOpen = FALSE /\ m_running = FALSE /\ workerJoinable = FALSE
  /\ m_hasPreviousFormat = FALSE /\ m_previousFormat = NoFormat
  /\ m_isDsdMode = FALSE /\ m_sampleRate = 0 /\ m_bytesPerBuffer = 0
  /\ m_prefillTarget = 0
  /\ m_needDsdBitReversal = FALSE /\ m_needDsdByteSwap = FALSE
  /\ m_dsdConversionMode = "Passthrough" /\ sinkFormat = "none"
  /\ m_need24BitPack = FALSE /\ m_need16To32Upsample = FALSE /\ sinkSupport = {}
  /\ m_channels = 0 /\ m_bytesPerSample = 0
  /\ m_ringBuffer = RingResize(PcmRingUnits, PcmSilenceByte)
  /\ m_reconfiguring = FALSE /\ m_ringUsers = 0 /\ configMutex = "free"
  /\ m_stopRequested = FALSE /\ m_draining = FALSE /\ m_silenceBuffersRemaining = 0
  /\ m_prefillComplete = FALSE /\ m_postOnlineDelayDone = FALSE
  /\ m_stabilizationCount = 0 /\ m_workerActive = FALSE /\ m_underrunCount = 0
  /\ sessionOpen = FALSE /\ connected = FALSE /\ tPlaying = FALSE /\ online = FALSE
  /\ tlog = <<>>
  /\ pcC = "idle" /\ cOp = NoOp /\ cRet = "none"
  /\ pcP = "idle" /\ pWritten = 0 /\ pRet = 0 /\ pWhy = "none"
  /\ pcW = "idle" /\ wBpb = 0 /\ wSil = 0 /\ wOut = NoOut
  /\ pcB = "idle"
  /\ ringArgs = NoRingArgs /\ cycleBytes = 0
  /\ m_formatGenerationAhead = TRUE /\ m_cached = NoCache
  /\ m_currentTrackURI = "" /\ m_currentPosition = 0 /\ m_trackDuration = 0
  /\ m_trackEpoch = 0
  /\ m_currentURI = "" /\ m_currentMetadata = ""
  /\ m_nextURI = "" /\ m_nextMetadata = ""
  /\ setURIRequest = NoRequest
  /\ closedSinceOpen = FALSE /\ wStartedClosed = FALSE /\ warmupSinceOpen = 0

Producer ==
  \/ SendAudio_Call
  \/ SendAudio_Guard1
  \/ SendAudio_Guard2
  \/ SendAudio_Guard3
  \/ \E n \in 1..MaxPush : SendAudio_Push(n)
  \/ SendAudio_PrefillCheck
  \/ SendAudio_PrefillSet
  \/ SendAudio_Exit
  \/ SendAudio_Return

Worker ==
  \/ GetNewStream_Begin
  \/ GetNewStream_SilenceByte
  \/ GetNewStream_Guard1
  \/ GetNewStream_Guard2
  \/ GetNewStream_Guard3
  \/ GetNewStream_Decide
  \/ GetNewStream_SilenceDec
  \/ GetNewStream_WarmupDone
  \/ GetNewStream_Pop
  \/ GetNewStream_Return

Reader ==
  \/ GetBufferLevel_Guard1
  \/ GetBufferLevel_Guard2
  \/ GetBufferLevel_Guard3
  \/ GetBufferLevel_Read

\* What the transport may answer: every attempt succeeds, or the bounded failures.
Fails(faulty, max) == IF faulty THEN RetryOutcomes(max) ELSE {0}
Answers(faulty) == IF faulty THEN BOOLEAN ELSE {TRUE}

\* The sink of the healthy runs supports every candidate; a faulty one supports
\* one candidate or none.
AllCandidates == PcmSinkCandidates \cup DsdSinkCandidates
SinkAnswers(faulty) ==
  IF faulty THEN {{w} : w \in AllCandidates} \cup {{}}
            ELSE {PcmSinkCandidates, DsdSinkCandidates}
\* Every set of candidates a sink may support.
AnySink == (SUBSET PcmSinkCandidates) \cup (SUBSET DsdSinkCandidates)

LifecycleOn(fmts, faulty, sinks) ==
  \/ \E f \in fmts, k \in Fails(faulty, OPEN_RETRIES) : Open_Call(f, k)
  \/ \E ok \in Answers(faulty) : Open_RateJoin(ok)
  \/ \E ok \in Answers(faulty), k \in Fails(faulty, REOPEN_SINK_RETRIES) : Open_ReconfJoin(ok, k)
  \/ FullReset_Begin
  \/ FullReset_Lock
  \/ FullReset_Gate
  \/ FullReset_Body
  \/ \E supported \in sinks : Open_Configure(supported)
  \/ ConfigureRing_Gate
  \/ \E sf \in Fails(faulty, SETSINK_RETRIES_FULL), prep \in Answers(faulty),
        cf \in Fails(faulty, CONNECT_RETRIES), wt \in Answers(faulty) :
          ConfigureRing_Body(sf, prep, cf, wt)
  \/ Open_ClearAndPlay
  \/ Open_Finish
  \/ Open_FastWait
  \/ Open_FastFinish
  \/ Close_Call
  \/ Close_Stop
  \/ Close_Finish
  \/ Release_Call
  \/ Release_Tail
  \/ Release_Join
  \/ Disable_Call
  \/ Disable_Tail
  \/ Disable_Join
  \/ \E found \in Answers(faulty), mtuOk \in Answers(faulty),
        k \in Fails(faulty, OPEN_RETRIES) : Enable_Call(found, mtuOk, k)
  \/ Control_Return

Playback ==
  \/ Resume_Call
  \/ Start_Call
  \/ \E imm \in BOOLEAN : Stop_Call(imm)
  \/ Stop_Finish
  \/ Pause_Call
  \/ Pause_Finish

Sdk ==
  \/ StartSyncWorker
  \/ Sdk_Online

Lifecycle(fmts, faulty) == LifecycleOn(fmts, faulty, SinkAnswers(faulty))

\* The cycle callback step by step against the control thread; the producer
\* delivers whole calls.  The sink is healthy.
Next ==
  \/ Worker
  \/ \E n \in 1..MaxPush : SendAudio(n)
  \/ Lifecycle(StreamFormats, FALSE)
  \/ Playback
  \/ Sdk

Spec == Init /\ [][Next]_vars

\* sendAudio step by step against the control thread; no worker thread runs.
NextProducer ==
  \/ Producer
  \/ Lifecycle(Formats, FALSE)
  \/ Playback
  \/ Sdk_Online

SpecProducer == Init /\ [][NextProducer]_vars

\* Whole calls only: every public operation, sendAudio and the callback run
\* uninterrupted by the other threads' steps; the control operations keep
\* their waits.  All four formats.
NextCalls ==
  \/ GetNewStream
  \/ \E n \in 1..MaxPush : SendAudio(n)
  \/ Lifecycle(Formats, FALSE)
  \/ Playback
  \/ Sdk

SpecCalls == Init /\ [][NextCalls]_vars

\* Two threads calling playback and lifecycle operations: the control thread
\* step by step and a second thread calling stopPlayback(true).
NextThreads ==
  \/ Lifecycle(StreamFormats, FALSE)
  \/ Playback
  \/ Sdk
  \/ Stop_Other

SpecThreads == Init /\ [][NextThreads]_vars

\* The control adapter's track bookkeeping, called by the control point
\* (SetAVTransportURI) and by the audio engine's threads (the notify calls).
NextAdapter ==
  \/ \E uri \in Tracks \cup {""}, md \in Metadata : ActionSetAVTransportURI(uri, md)
  \/ ActionSetAVTransportURI_Callback
  \/ ActionSetAVTransportURI_Event
  \/ \E uri \in Tracks \cup {""}, md \in Metadata : ActionSetNextAVTransportURI(uri, md)
  \/ \E uri \in Tracks, md \in Metadata : NotifyTrackChange(uri, md)
  \/ \E uri \in Tracks, md \in Metadata, d \in 0..MaxSeconds :
       NotifyGaplessTransition(uri, md, d)
  \/ \E s, d \in 0..MaxSeconds : NotifyPositionChange(s, d)

SpecAdapter == Init /\ [][NextAdapter]_vars

\* The control thread's own steps.
ControlThread == Lifecycle(StreamFormats, FALSE) \/ Playback

\* The control thread against whole callbacks, on the base streams.  The
\* producer is left out: the silence waits read m_silenceBuffersRemaining,
\* which sendAudio never writes.
NextWaits ==
  \/ GetNewStream
  \/ ControlThread
  \/ Sdk

\* The control thread is scheduled again whenever it is inside a call: its
\* waits are bounded by steady_clock and depend on no other thread's progress.
\* Nothing is assumed about the callback, which may never run again.
SpecWaits == Init /\ [][NextWaits]_vars /\ WF_vars(pcC # "idle" /\ ControlThread)

\* The control thread alone, against a sink that may fail any call.
NextControl ==
  \/ Lifecycle(Formats, TRUE)
  \/ Playback
  \/ Sdk
  \/ Sdk_Offline

SpecControl == Init /\ [][NextControl]_vars

\* The readers of the ring step by step (the producer and the status reader)
\* against enable(), open(), close(), release() and disable() of the PCM base
\* stream on a healthy sink.  With one PCM format open() takes the first-open
\* path or the fast path without a silence wait; the joins of the rate-change
\* and reconfigure paths and the DSD silence wait are not entered.  A reader
\* inside a call and the control thread inside a call are scheduled again.
NextGate ==
  \/ Producer
  \/ Reader
  \/ \E f \in {g \in StreamFormats : ~g.isDSD} : Open_Call(f, 0)
  \/ FullReset_Begin
  \/ FullReset_Lock
  \/ FullReset_Gate
  \/ FullReset_Body
  \/ Open_Configure(PcmSinkCandidates)
  \/ ConfigureRing_Gate
  \/ ConfigureRing_Body(0, TRUE, 0, TRUE)
  \/ Open_ClearAndPlay
  \/ Open_Finish
  \/ Open_FastFinish
  \/ Close_Call
  \/ Close_Stop
  \/ Close_Finish
  \/ Release_Call
  \/ Release_Tail
  \/ Release_Join
  \/ Disable_Call
  \/ Disable_Tail
  \/ Disable_Join
  \/ Enable_Call(TRUE, TRUE, 0)
  \/ Control_Return
  \/ Sdk

SpecGate ==
  /\ Init /\ [][NextGate]_vars
  /\ WF_vars(pcP # "idle" /\ Producer)
  /\ WF_vars(pcB # "idle" /\ Reader)
  /\ WF_vars(pcC # "idle" /\ ControlThread)

\* configureRing* as a function of its arguments: every ring configuration of
\* RingArguments, one after the other.
NextCycle == \E args \in RingArguments : ConfigureRing_Cycle(args)

SpecCycle == Init /\ [][NextCycle]_vars

\* The control thread against a sink that may support any set of the candidate
\* wire formats, or none; DSD sources in both bit orders, PCM sources in the
\* three bit depths.
NextFormat ==
  \/ LifecycleOn(SourceFormats, FALSE, AnySink)
  \/ Playback
  \/ Sdk

SpecFormat == Init /\ [][NextFormat]_vars

\* ------------------------------------------------------------------ claims
\* The writer is inside the gate: beginReconfigure has returned and
\* endReconfigure has not run yet (fullReset 768-782, configureRing* bodies).
WriterInGate == pcC \in {"fr_body", "cr_body"}
\* The thread's next step reads or writes the ring buffer object.
WorkerAccessesRing == pcW \in {"sil", "tree", "pop"}
ProducerAccessesRing == pcP \in {"push", "prefillChk"}
ReaderAccessesRing == pcB = "read"

\* C1: in no reachable state is the writer inside the reconfigure gate while
\* a reader (callback, producer, getBufferLevel) is accessing the ring buffer
\* object, and the config mutex is only ever free or held by the control thread.
C1_GateExcludesReaders ==
  /\ ~(WriterInGate /\ (WorkerAccessesRing \/ ProducerAccessesRing \/ ReaderAccessesRing))
  /\ configMutex \in {"free", "control"}

\* C2: whenever the callback returns, its buffer holds a whole cycle: either
\* bytes_per_cycle silence bytes or bytes_per_cycle bytes popped from the ring.
C2_WholeCycleWritten ==
  pcW = "ret" => (wOut.kind \in {"silence", "audio"} /\ wOut.n = wBpb)

\* C3: a callback invocation that begins after close() has returned and ends
\* before open() is called again pops no byte from the ring.
C3_NoPopAfterClose ==
  ~(pcW = "ret" /\ wStartedClosed /\ closedSinceOpen
      /\ wOut.kind \in {"audio", "short"} /\ wOut.n > 0)

\* C4: a sendAudio call whose guard finds reconfiguring set, at the first
\* check or at the re-check after the increment, returns 0, leaves the ring
\* and prefill_complete as they were, and leaves ring_users at its value
\* from before the call (the re-check undoes its own increment).
C4_AbortedPushLeavesNoTrace ==
  [][(pcP \in {"guard1", "guard3"} /\ pcP' # pcP /\ m_reconfiguring) =>
        /\ pcP' = "ret"
        /\ pRet' = 0
        /\ m_ringBuffer' = m_ringBuffer
        /\ m_prefillComplete' = m_prefillComplete
        /\ m_ringUsers' = m_ringUsers - (IF pcP = "guard3" THEN 1 ELSE 0)]_vars

\* A push has been turned away by the re-check and ring_users is back at 0.
C4_Witness ==
  pcP = "ret" /\ pWhy = "gate2" /\ pRet = 0 /\ m_reconfiguring /\ m_ringUsers = 0

\* C5: a sendAudio call that starts while the core is draining, a stop has
\* been requested or the transport is not online returns 0 and leaves the
\* ring and prefill_complete untouched.
C5_RefusedPushWritesNothing ==
  [][(pcP = "idle" /\ pcP' # "idle" /\ (m_draining \/ m_stopRequested \/ ~online)) =>
        /\ pcP' = "ret"
        /\ pRet' = 0
        /\ m_ringBuffer' = m_ringBuffer
        /\ m_prefillComplete' = m_prefillComplete]_vars

\* A push refused for draining alone, on an online stream that holds audio.
C5_Witness ==
  /\ pcP = "ret" /\ pWhy = "draining" /\ pRet = 0
  /\ online /\ ~m_stopRequested /\ RingAvailable(m_ringBuffer) > 0

\* C6: prefill_complete is never set while the ring holds fewer than
\* prefill_target bytes: at every step that turns it true, available is at
\* least the target.
C6_PrefillOnlyAtThreshold ==
  [][(~m_prefillComplete /\ m_prefillComplete') =>
        RingAvailable(m_ringBuffer') >= m_prefillTarget']_vars

\* C7: the callback decides to pop real audio only after at least
\* stabilization_target warmup cycles since the last successful open().
C7_WarmupBeforeAudio ==
  [][(pcW = "tree" /\ pcW' = "pop") =>
        warmupSinceOpen >= StabilizationTarget(m_isDsdMode, m_sampleRate)]_vars

\* The callback is in the Playing state: nothing before the underrun test of
\* its decision tree applies.
PlayingCycle ==
  /\ m_silenceBuffersRemaining <= 0
  /\ ~m_stopRequested
  /\ m_prefillComplete
  /\ m_postOnlineDelayDone

\* C8: while Playing, a callback that finds available < bytes_per_cycle adds
\* exactly one to the underrun counter, emits silence and leaves the ring
\* alone; one that finds enough goes on to pop and leaves the counter; no
\* other step of the callback changes the counter.
C8_UnderrunCountedOnce ==
  [][/\ (pcW = "tree" /\ pcW' # "tree" /\ PlayingCycle) =>
          IF RingAvailable(m_ringBuffer) < wBpb
            THEN /\ m_underrunCount' = (m_underrunCount + 1) % UnderrunWrap
                 /\ pcW' = "ret"
                 /\ wOut'.kind = "silence" /\ wOut'.n = wBpb
                 /\ m_ringBuffer' = m_ringBuffer
            ELSE /\ m_underrunCount' = m_underrunCount
                 /\ pcW' = "pop"
     /\ (pcW' # pcW /\ ~(pcW = "tree" /\ PlayingCycle
                          /\ RingAvailable(m_ringBuffer) < wBpb)) =>
          m_underrunCount' = m_underrunCount]_vars

\* An underrun cycle has just been counted and answered with silence.
C8_Witness ==
  /\ pcW = "ret" /\ wOut.kind = "silence" /\ m_underrunCount = 1
  /\ PlayingCycle /\ RingAvailable(m_ringBuffer) < wBpb /\ m_playing

\* open(F) starts on the same-format fast path.
FastPathStarts ==
  pcC = "idle" /\ pcC' # "idle" /\ cOp'.name = "open" /\ cOp'.path = "fast"

\* What the fast path does after its silence wait: ring cleared, prefill and
\* warmup reset, play() as the only transport call, success.
FastPathCompletes ==
  (pcC = "fp_clear" /\ pcC' # "fp_clear") =>
     /\ pcC' = "ret" /\ cRet' = "ok"
     /\ RingAvailable(m_ringBuffer') = 0
     /\ ~m_prefillComplete' /\ ~m_postOnlineDelayDone' /\ m_stabilizationCount' = 0
     /\ tlog' = <<"play">>

RateReopenCalls ==
  <<"stop", "disconnect", "close_session", "settle", "open_session",
    "set_sink_format", "connect_prepare", "connect", "connect_wait", "play">>

\* A call log with the repeats of a retried call folded into one.
RECURSIVE Collapse(_)
Collapse(s) ==
  IF Len(s) <= 1 THEN s
  ELSE IF s[1] = s[2] THEN Collapse(Tail(s))
  ELSE <<s[1]>> \o Collapse(Tail(s))

\* The format changes that need the full reopen.
FullReopenTrigger(prev, f) ==
  \/ prev.isDSD /\ ~f.isDSD
  \/ prev.isDSD /\ f.isDSD /\ prev.sampleRate # f.sampleRate
  \/ ~prev.isDSD /\ ~f.isDSD /\ prev.sampleRate # f.sampleRate

\* C10: open(F) on an open stream with a DSD->PCM change, a DSD rate change
\* or a PCM rate change takes the full reopen; when that reaches play() the
\* transport has received stop, disconnect, close_session, settle,
\* open_session, set_sink_format, connect_prepare, connect, connect_wait,
\* play in this order, the ring is empty and prefill_complete and the warmup
\* flag are false; when open() returns, the warmup flag is false and its
\* counter 0, so a fresh prefill and warmup precede any pop.
C10_FullReopenOrder ==
  [][/\ (pcC = "idle" /\ pcC' \notin {"idle", "ret"} /\ cOp'.name = "open"
           /\ m_open /\ m_hasPreviousFormat
           /\ FullReopenTrigger(m_previousFormat, cOp'.fmt)) =>
          cOp'.path = "rate"
     /\ (pcC = "op_clear" /\ pcC' # "op_clear" /\ cOp.path = "rate") =>
          /\ Collapse(tlog') = RateReopenCalls
          /\ RingAvailable(m_ringBuffer') = 0
          /\ ~m_prefillComplete' /\ ~m_postOnlineDelayDone'
     /\ (pcC = "op_online" /\ pcC' # "op_online" /\ cOp.path = "rate") =>
          /\ pcC' = "ret" /\ cRet' = "ok" /\ tlog' = tlog
          /\ ~m_postOnlineDelayDone' /\ m_stabilizationCount' = 0]_vars

\* A DSD rate change has gone through the full reopen and returned success.
C10_Witness ==
  /\ pcC = "ret" /\ cOp.name = "open" /\ cOp.path = "rate" /\ cRet = "ok"
  /\ cOp.fmt.isDSD /\ tlog = RateReopenCalls
  /\ m_open /\ m_playing /\ ~m_postOnlineDelayDone

\* The conversion configureSinkDSD derives from the source bit order of F and
\* the wire format the sink has accepted.
ExpectedConversion(f, wire) ==
  DSDConversionMode(f.dsf # WireIsLSB(wire), WireIsLittle(wire))

\* C11: when open(F) has returned success for a DSD format F, the bit-reversal
\* flag is (source order of F # wire order), the byte-swap flag is (wire is
\* little endian) and the conversion mode the producer loads is the one built
\* from these two, for the wire format negotiated with the sink.
C11_ConversionFollowsFormat ==
  (pcC = "ret" /\ cOp.name = "open" /\ cRet = "ok" /\ cOp.fmt.isDSD) =>
     /\ sinkFormat \in DsdSinkCandidates
     /\ m_needDsdBitReversal = (cOp.fmt.dsf # WireIsLSB(sinkFormat))
     /\ m_needDsdByteSwap = WireIsLittle(sinkFormat)
     /\ m_dsdConversionMode = ExpectedConversion(cOp.fmt, sinkFormat)

\* The sink has accepted none of the candidates offered for the format.
SinkRejectsFormat == pcC = "cfg" /\ pcC' = "ret"

\* C12: when the sink accepts none of the candidate wire formats, open(F)
\* called on an Enabled core (no stream open) returns failure to its caller
\* and leaves the core Enabled: enabled, not open, not playing.
C12_UnsupportedFormatReturnsFailure ==
  [][(SinkRejectsFormat /\ ~m_open) =>
        /\ cRet' = "fail"
        /\ m_enabled' /\ ~m_open' /\ ~m_playing']_vars

\* isOpen() and isPlaying() of DirettaSync.h.
IsOpen == m_open
IsPlaying == m_playing /\ ~m_paused

\* open() has returned failure from a reopen of an open stream (rate change
\* or reconfigure path).
ReopenFailed ==
  /\ pcC = "ret" /\ cOp.name = "open" /\ cRet = "fail"
  /\ cOp.path \in {"rate", "reconf"}

\* C13: when a step of a mid-session reopen fails (session re-open,
\* set_sink_format after its retries, connect_prepare, connect, connect_wait)
\* and open() returns failure, the core is Enabled: isOpen() and isPlaying()
\* are false, on the rate-change path and on the reconfigure path.
C13_FailedReopenLeavesEnabled ==
  ReopenFailed => (~IsOpen /\ ~IsPlaying)

\* The elements of a call log.
Calls(log) == {log[i] : i \in DOMAIN log}

\* C14: enable() on a Disabled core returns success, and the core becomes
\* Enabled with its session open, iff discovery found a sink and one of the
\* open_session attempts succeeded; otherwise it returns failure and the core
\* stays Disabled; whether the MTU probe failed plays no part.  enable() on
\* an Enabled core returns success with no discovery and no session call.
C14_EnableOutcome ==
  [][\A found \in BOOLEAN, mtuOk \in BOOLEAN, k \in 0..OPEN_RETRIES :
        Enable_Call(found, mtuOk, k) =>
          IF m_enabled
            THEN /\ cRet' = "ok"
                 /\ tlog' = tlog
                 /\ UNCHANGED <<m_enabled, m_sdkOpen, sessionOpen>>
            ELSE /\ cRet' = (IF found /\ k < OPEN_RETRIES THEN "ok" ELSE "fail")
                 /\ m_enabled' = (found /\ k < OPEN_RETRIES)
                 /\ (cRet' = "fail") => UNCHANGED <<m_sdkOpen, sessionOpen>>
                 /\ (cRet' = "ok") => (m_sdkOpen' /\ sessionOpen')
                 /\ ~found => "open_session" \notin Calls(tlog')]_vars

\* enable() has succeeded on the last open_session attempt although the MTU
\* probe failed.
C14_Witness ==
  /\ pcC = "ret" /\ cOp.name = "enable" /\ cRet = "ok" /\ m_enabled
  /\ "mtu_fallback" \in Calls(tlog)
  /\ tlog[Len(tlog) - 1] = "open_session" /\ tlog[Len(tlog) - 2] = "open_session"

C16_ReleaseForgetsStream ==
  [][/\ (pcC' = "ret" /\ cOp'.name = "release") =>
          /\ ~m_open' /\ ~m_playing' /\ ~m_paused'
          /\ ~sessionOpen' /\ ~m_sdkOpen' /\ ~connected'
          /\ ~m_hasPreviousFormat'
     /\ (cOp'.name = "release") => m_enabled' = m_enabled
     /\ (m_enabled /\ ~m_sdkOpen /\ pcC = "idle" /\ cOp'.name = "open") =>
          /\ tlog'[1] = "open_session"
          /\ cOp'.path \in {"first", "none"}
          /\ (cOp'.path = "none") = (cRet' = "fail")
          /\ (cOp'.path = "first") => (pcC' = "fr_begin" /\ sessionOpen' /\ m_sdkOpen')]_vars

\* A stream was released and the next open() has gone through the session
\* re-open and the whole first-open sequence.
C16_Witness ==
  /\ pcC = "ret" /\ cOp.name = "open" /\ cOp.path = "first" /\ cRet = "ok"
  /\ Len(tlog) > 2 /\ tlog[1] = "open_session" /\ tlog[Len(tlog)] = "play"
  /\ m_open /\ m_sdkOpen

\* C17: while the stream is paused (pausePlayback() has returned and nothing
\* has resumed, stopped or re-opened it) no callback pops from the ring: a step
\* that is not the control thread's never lowers the ring's fill level, so
\* every cycle handed to the transport is silence.
C17_PausedCallbackIsSilent ==
  [][(m_paused /\ UNCHANGED ctlVars) =>
       RingAvailable(m_ringBuffer') >= RingAvailable(m_ringBuffer)]_vars

\* C18: resuming a paused stream (resumePlayback(), or startPlayback() on a
\* paused open stream) clears stop_requested and draining, empties the ring,
\* resets prefill_complete and calls the transport's play(); startPlayback()
\* on a playing stream changes nothing and calls nothing; and once the stream
\* has been resumed prefill_complete (which ends the callback's silence) turns
\* true only when the ring, emptied by the resume, holds prefill_target bytes.
C18_ResumeRequiresFreshPrefill ==
  [][/\ (/\ pcC = "idle" /\ m_paused
          /\ \/ cOp'.name = "resume"
             \/ cOp'.name = "start" /\ m_open) =>
          /\ ~m_stopRequested' /\ ~m_draining' /\ ~m_prefillComplete'
          /\ m_silenceBuffersRemaining' = 0
          /\ RingAvailable(m_ringBuffer') = 0
          /\ tlog' = <<"play">>
          /\ m_playing' /\ ~m_paused'
     /\ (pcC = "idle" /\ IsPlaying /\ m_open /\ cOp'.name = "start") =>
          /\ tlog' = <<>>
          /\ UNCHANGED <<flagVars, playVars, m_ringBuffer, geomVars, tPlaying>>
     /\ (/\ pcC = "ret" /\ cOp.name = "resume" /\ tlog = <<"play">>
         /\ ~m_prefillComplete /\ m_prefillComplete') =>
          RingAvailable(m_ringBuffer') >= m_prefillTarget']_vars

\* C19: stopPlayback(immediate), called on a playing or paused stream with
\* either value of immediate, calls the transport's stop() exactly once, goes
\* through draining and returns with the core idle: not playing, not paused
\* and no stream open; without immediate the shutdown silence is requested
\* before stop() is called.
C19_StopLeavesEnabled ==
  [][(/\ cOp'.name = "stop" /\ pcC' = "ret" /\ pcC # "ret"
      /\ m_playing) =>
       /\ Cardinality({i \in DOMAIN tlog' : tlog'[i] = "stop"}) = 1
       /\ m_draining'
       /\ ~m_playing' /\ ~m_paused' /\ ~m_open'
       /\ (pcC = "sp_wait") => (m_draining /\ tlog = <<>>)]_vars

C21_LifecycleCallsSerialised ==
  \A i, j, k \in DOMAIN tlog :
    (i < j /\ j < k) =>
      ~(tlog[i] # "stop@other" /\ tlog[j] = "stop@other" /\ tlog[k] # "stop@other")

\* The number of consecutive calls of one kind at the end of a log.
TrailingCalls(log, call) ==
  Cardinality({i \in DOMAIN log : \A j \in i..Len(log) : log[j] = call})

\* C22: enable() or open() fails on a retried transport step only after all
\* attempts of that step have failed: 3 for open_session wherever it is
\* called, 5 for set_sink_format on an open and 3 in the format-change
\* reopen, 3 for connect.
C22_RetryPolicy ==
  [][(/\ pcC # "ret" /\ pcC' = "ret" /\ cRet' = "fail"
      /\ cOp'.name \in {"enable", "open"} /\ tlog' # <<>>) =>
       LET last == tlog'[Len(tlog')]
           n == TrailingCalls(tlog', last)
       IN  /\ (last = "open_session") => (n = OPEN_RETRIES)
           /\ (last = "set_sink_format") =>
                (n = IF pcC = "rf_join" THEN REOPEN_SINK_RETRIES ELSE SETSINK_RETRIES_FULL)
           /\ (last = "connect") => (n = CONNECT_RETRIES)]_vars

\* C23: when open(F) has succeeded for a DSD format F, the number of warmup
\* cycles the callback counts to is the one computed from F's own sample
\* rate: ceil(50 ms x (F.sampleRate / 2822400) / cycle period), clamped to
\* [50, 3000], whatever was opened before.
C23_DsdWarmupFollowsFormat ==
  (pcC = "ret" /\ cOp.name = "open" /\ cRet = "ok" /\ cOp.fmt.isDSD) =>
    StabilizationTargetExact(m_isDsdMode, m_sampleRate)
      = StabilizationTargetExact(TRUE, cOp.fmt.sampleRate)

\* C24: whenever the callback fills a (non-empty) buffer with silence, the fill byte is
\* the one of the mode the core is in at that moment: 0x69 while the DSD-mode
\* flag is true, 0x00 while it is false.
C24_SilenceByteMatchesMode ==
  [][(wOut.kind = "none" /\ wOut'.kind = "silence" /\ wOut'.n > 0) =>
       wOut'.byte = SilenceByteFor(m_isDsdMode)]_vars

\* C25: the track epoch is incremented by every track change, whichever
\* operation makes it (SetAVTransportURI, notifyTrackChange,
\* notifyGaplessTransition), and it never decreases.
C25_EpochCountsTrackChanges ==
  [][/\ (m_currentTrackURI' # m_currentTrackURI) => (m_trackEpoch' > m_trackEpoch)
     /\ m_trackEpoch' >= m_trackEpoch]_vars

\* C26: a public call made outside its permitted source states changes
\* nothing and calls nothing on the transport: open() on a disabled core and
\* startPlayback() without an open stream return failure; pausePlayback() on
\* a stream that is not playing, resumePlayback() on one that is not paused
\* and close() without an open stream return at once.
C26_RefusedCallsChangeNothing ==
  [][(/\ pcC = "idle" /\ pcC' # "idle"
      /\ \/ cOp'.name = "open" /\ ~m_enabled
         \/ cOp'.name = "start" /\ ~m_open
         \/ cOp'.name = "pause" /\ ~IsPlaying
         \/ cOp'.name = "resume" /\ ~m_paused
         \/ cOp'.name = "close" /\ ~m_open) =>
       /\ pcC' = "ret"
       /\ (cOp'.name \in {"open", "start"}) => (cRet' = "fail")
       /\ tlog' = tlog
       /\ UNCHANGED <<flagVars, workerVars, geomVars, m_ringBuffer, gateVars, playVars,
                      sessionOpen, connected, tPlaying, online>>]_vars

\* startPlayback() was refused on an enabled core without an open stream.
C26_Witness ==
  /\ pcC = "ret" /\ cOp.name = "start" /\ cRet = "fail"
  /\ m_enabled /\ ~m_open /\ workerJoinable

\* C27: the callback applies its tests in order (reconfiguring, shutdown
\* silence, stop requested, prefill incomplete, warmup, underrun, pop); the
\* first that holds decides the cycle and nothing belonging to a later test
\* happens in that call: the silence counter goes down by exactly one, the
\* warmup counter is not touched while a stop is requested or the prefill is
\* incomplete, and no underrun is counted before the warmup is done.
C27_DecisionTreeInOrder ==
  [][/\ (pcW \in {"guard1", "guard3"} /\ pcW' = "ret") =>
          /\ m_reconfiguring /\ wOut'.kind = "silence"
          /\ UNCHANGED <<m_silenceBuffersRemaining, m_stabilizationCount,
                         m_postOnlineDelayDone, m_underrunCount, m_ringBuffer>>
     /\ (pcW = "tree" /\ pcW' # "tree") =>
          IF m_silenceBuffersRemaining > 0
            THEN /\ pcW' = "silDec"
                 /\ UNCHANGED <<m_stabilizationCount, m_postOnlineDelayDone,
                                m_underrunCount, m_ringBuffer>>
          ELSE IF m_stopRequested \/ ~m_prefillComplete
            THEN /\ pcW' = "ret" /\ wOut'.kind = "silence"
                 /\ UNCHANGED <<m_silenceBuffersRemaining, m_stabilizationCount,
                                m_postOnlineDelayDone, m_underrunCount, m_ringBuffer>>
          ELSE IF ~m_postOnlineDelayDone
            THEN /\ m_stabilizationCount' = m_stabilizationCount + 1
                 /\ pcW' \in {"ret", "warmSet"}
                 /\ (pcW' = "ret") => (wOut'.kind = "silence")
                 /\ UNCHANGED <<m_silenceBuffersRemaining, m_underrunCount, m_ringBuffer>>
          ELSE IF RingAvailable(m_ringBuffer) < wBpb
            THEN /\ m_underrunCount' = (m_underrunCount + 1) % UnderrunWrap
                 /\ pcW' = "ret" /\ wOut'.kind = "silence"
                 /\ UNCHANGED <<m_silenceBuffersRemaining, m_stabilizationCount,
                                m_postOnlineDelayDone, m_ringBuffer>>
          ELSE /\ pcW' = "pop"
               /\ UNCHANGED <<m_silenceBuffersRemaining, m_stabilizationCount,
                              m_postOnlineDelayDone, m_underrunCount, m_ringBuffer>>
     /\ (pcW = "silDec" /\ pcW' # "silDec") =>
          /\ m_silenceBuffersRemaining' = m_silenceBuffersRemaining - 1
          /\ pcW' = "ret" /\ wOut'.kind = "silence"
          /\ UNCHANGED <<m_stabilizationCount, m_postOnlineDelayDone,
                         m_underrunCount, m_ringBuffer>>]_vars

\* The shutdown silence has decided a cycle in which a stop is requested and
\* the prefill is incomplete as well.
C27_Witness ==
  /\ pcW = "silDec" /\ m_silenceBuffersRemaining > 0
  /\ m_stopRequested /\ ~m_prefillComplete

\* C28: whenever a push passes the ring-access guard and writes data, the format
\* values it uses (the producer's cache after lines 1120-1129) equal the shared
\* format values of that moment: no change made by fullReset, open,
\* configureSink* or configureRing* reaches a push without a generation
\* increment in between.
C28_PushUsesCurrentFormat ==
  [][RingAvailable(m_ringBuffer') > RingAvailable(m_ringBuffer)
       => /\ ~m_formatGenerationAhead'
          /\ m_cached' = SharedFormatValues']_vars

\* C29: DSD negotiation offers (LSB,BIG), (MSB,BIG), (LSB,LITTLE), (MSB,LITTLE)
\* and then the minimal DSD descriptor, and selects the first one the sink
\* supports; whatever the sink supports and whichever bit order the source
\* has, the conversion mode stored is the encoding of the two flags stored with
\* it: Passthrough = (F,F), BitReverseOnly = (T,F), ByteSwapOnly = (F,T),
\* BitReverseAndSwap = (T,T); when the sink supports none the open does not
\* succeed.
C29_DsdNegotiation ==
  [][(pcC = "cfg" /\ cOp.fmt.isDSD /\ pcC' # "cfg") =>
       IF sinkSupport' = {}
         THEN pcC' = "ret" /\ cRet' \in {"fail", "throw"}
         ELSE /\ pcC' = "cr_gate"
              /\ sinkFormat' =
                   IF "LSB_BIG" \in sinkSupport' THEN "LSB_BIG"
                   ELSE IF "MSB_BIG" \in sinkSupport' THEN "MSB_BIG"
                   ELSE IF "LSB_LITTLE" \in sinkSupport' THEN "LSB_LITTLE"
                   ELSE IF "MSB_LITTLE" \in sinkSupport' THEN "MSB_LITTLE"
                   ELSE "DSD1"
              /\ m_dsdConversionMode' =
                   CASE ~m_needDsdBitReversal' /\ ~m_needDsdByteSwap' -> "Passthrough"
                     [] m_needDsdBitReversal' /\ ~m_needDsdByteSwap' -> "BitReverseOnly"
                     [] ~m_needDsdBitReversal' /\ m_needDsdByteSwap' -> "ByteSwapOnly"
                     [] m_needDsdBitReversal' /\ m_needDsdByteSwap' -> "BitReverseAndSwap"]_vars

\* A DFF stream has been negotiated with a sink that supports the third and
\* the fourth descriptor only.
C29_Witness ==
  /\ pcC = "cr_gate" /\ cOp.fmt.isDSD /\ ~cOp.fmt.dsf
  /\ sinkSupport = {"LSB_LITTLE", "MSB_LITTLE"}
  /\ sinkFormat = "LSB_LITTLE"
  /\ m_dsdConversionMode = "BitReverseAndSwap"

\* C30: PCM negotiation offers the wire bit depths 32, 24, 16 in that order and
\* takes the first the sink accepts; the push conversion that follows from the
\* values configureRingPCM stores is the one of the table: 16 -> 16 direct copy,
\* 16 -> 32 widen, 24 (in 32) -> 24 pack to 3 bytes, 24 -> 32 direct copy,
\* 32 -> 32 direct copy; and widen and pack are never both set.
C30_PcmNegotiation ==
  [][/\ (pcC = "cfg" /\ ~cOp.fmt.isDSD /\ pcC' = "cr_gate") =>
          sinkFormat' = IF "PCM32" \in sinkSupport' THEN "PCM32"
                        ELSE IF "PCM24" \in sinkSupport' THEN "PCM24"
                        ELSE "PCM16"
     /\ (pcC = "cr_body" /\ ~cOp.fmt.isDSD /\ pcC' # "cr_body") =>
          /\ ~(m_need24BitPack' /\ m_need16To32Upsample')
          /\ (cOp.fmt.bitDepth = 16 /\ sinkFormat = "PCM16")
                => PushVariant(SharedFormatValues') = "push"
          /\ (cOp.fmt.bitDepth = 16 /\ sinkFormat = "PCM32")
                => PushVariant(SharedFormatValues') = "push16To32"
          /\ (cOp.fmt.bitDepth = 24 /\ sinkFormat = "PCM24")
                => PushVariant(SharedFormatValues') = "push24BitPacked"
          /\ (cOp.fmt.bitDepth = 24 /\ sinkFormat = "PCM32")
                => PushVariant(SharedFormatValues') = "push"
          /\ (cOp.fmt.bitDepth = 32 /\ sinkFormat = "PCM32")
                => PushVariant(SharedFormatValues') = "push"]_vars

\* A 24-bit stream has been configured for a sink that supports 24 and 16 bits
\* on the wire: the 3-byte packing is set.
C30_Witness ==
  /\ cOp.name = "open" /\ cOp.fmt.bitDepth = 24 /\ pcC \in {"op_clear", "ret"}
  /\ sinkSupport = {"PCM24", "PCM16"}
  /\ sinkFormat = "PCM24"
  /\ m_need24BitPack /\ ~m_need16To32Upsample

\* C31: the sink capabilities are queried when the session is first opened and
\* again after every full reopen of the session (DSD -> PCM, DSD rate change,
\* PCM rate change, the reconfigure path), before the new format is negotiated
\* against them: when open() reaches the negotiation, every open_session of the
\* call has been followed by a capability query.
C31_CapabilitiesRequeried ==
  pcC = "cfg" =>
    \A i \in 1..Len(tlog) :
      tlog[i] = "open_session" => \E j \in (i+1)..Len(tlog) : tlog[j] = "query_caps"

\* C32: for every format the ring is configured for (PCM of any rate, channel
\* count and wire sample width, DSD of any byte rate and channel count) the
\* per-cycle byte target is about 1 ms of audio (within one frame of
\* bytes-per-second / 1000), a whole number of frames, and never less than 64
\* bytes.
C32_CycleTarget ==
  ringArgs # NoRingArgs =>
    LET frame == IF ringArgs.isDsd THEN 4 * ringArgs.channels
                 ELSE ringArgs.channels * ringArgs.bps
        bytesPerSecond == ringArgs.rate * ringArgs.channels * ringArgs.bps
        oneMs == bytesPerSecond \div 1000
    IN  /\ cycleBytes >= 64
        /\ cycleBytes % frame = 0
        /\ (cycleBytes > 64 =>
              /\ cycleBytes > oneMs - frame
              /\ cycleBytes < oneMs + frame + 1)

\* C33: m_silenceBuffersRemaining is never negative, whichever way the
\* callback's load and decrement interleave with the control operations that
\* overwrite the counter.
C33_SilenceCounterNotNegative == m_silenceBuffersRemaining >= 0

\* The writer is inside beginReconfigure: the flag is set and it waits for the
\* readers.
WriterInBeginReconfigure == m_reconfiguring /\ pcC \in {"fr_gate", "cr_gate"}

\* C34: under fair scheduling of the readers a writer that has asserted
\* reconfiguring eventually leaves beginReconfigure; ring_users is never
\* negative on the way.
C34_WriterLeavesBeginReconfigure ==
  /\ [](m_ringUsers >= 0)
  /\ (WriterInBeginReconfigure ~> ~WriterInBeginReconfigure)

\* The writer waits in beginReconfigure while the producer holds the guard.
C34_Witness == WriterInBeginReconfigure /\ m_ringUsers > 0 /\ pcP = "push"

\* C35: every mutation of the ring made by a control-path operation (the resize
\* in configureRing*, the clear in fullReset, in both paths of open and in
\* resumePlayback) is made under the gate, so it never overlaps a producer
\* push: at such a step the producer is not between its guard and its exit.
C35_ControlMutationsUnderGate ==
  [][(/\ pcC' # pcC
      /\ \/ pcC \in {"fp_clear", "op_clear", "fr_body", "cr_body"}
         \/ (pcC = "idle" /\ cOp'.name = "resume" /\ m_paused))
       => ~ProducerAccessesRing]_vars

\* C36: whenever the core reports isPlaying() after a control operation has
\* returned, the draining flag and the stop request are both false, so pushes
\* are accepted once the transport is online; in particular after
\* stopPlayback() followed by startPlayback() on a stream that is still open.
C36_PlayingAcceptsPushes ==
  (pcC = "idle" /\ IsPlaying) => (~m_draining /\ ~m_stopRequested)

\* C37: after every public operation has returned, failure returns included,
\* the session-open flag m_sdkOpen is true exactly when the transport session
\* is open, so that a later open() re-opens a session that is closed.
C37_SdkOpenFlagMatchesSession ==
  pcC = "idle" => (m_sdkOpen <=> sessionOpen)

\* C38: with a single control thread, after every public operation has
\* returned (success or failure) the lifecycle flags are nested: paused
\* implies playing, playing implies open, open implies enabled.
C38_LifecycleFlagsNested ==
  pcC = "idle" =>
    /\ (m_paused => m_playing)
    /\ (m_playing => m_open)
    /\ (m_open => m_enabled)

\* pausePlayback() has returned on a playing stream.
C38_Witness ==
  pcC = "idle" /\ m_paused /\ m_playing /\ m_open /\ m_enabled

\* C39: for every PCM input bit depth in {16, 24, 32} and every wire bit depth
\* negotiation can select, the push variant sendAudio chooses reads the input
\* with the upstream sample width (2 bytes for 16-bit input, 4 bytes for 24-
\* and 32-bit input) and writes samples of the negotiated wire width.
C39_PushReadsInputWidth ==
  [][(pcC = "cr_body" /\ ~cOp.fmt.isDSD /\ pcC' # "cr_body") =>
       /\ PushWidths(SharedFormatValues').read = (IF cOp.fmt.bitDepth = 16 THEN 2 ELSE 4)
       /\ PushWidths(SharedFormatValues').write =
            (IF sinkFormat = "PCM32" THEN 4 ELSE IF sinkFormat = "PCM24" THEN 3 ELSE 2)]_vars

\* C40: a SetAVTransportURI action with an empty URI is rejected with error
\* 402 and changes nothing (current URI, metadata, position, duration and the
\* queued next URI stay as they were, onSetURI is not invoked, no event is
\* sent); with a non-empty URI the current URI and metadata are replaced,
\* position and duration are reset to 0 and the queued next URI is cleared
\* before the callback runs, and the callback receives the request's arguments.
C40_SetURIEmptyRefused ==
  [][/\ (setURIRequest.pc = "idle" /\ setURIRequest' # setURIRequest) =>
          IF setURIRequest'.uri = ""
            THEN /\ setURIRequest'.err = 402
                 /\ setURIRequest'.pc = "idle"
                 /\ ~setURIRequest'.called /\ ~setURIRequest'.evented
                 /\ UNCHANGED <<m_currentURI, m_currentMetadata, m_currentTrackURI,
                                m_currentPosition, m_trackDuration,
                                m_nextURI, m_nextMetadata>>
            ELSE /\ setURIRequest'.err = 0
                 /\ m_currentURI' = setURIRequest'.uri
                 /\ m_currentTrackURI' = setURIRequest'.uri
                 /\ m_currentMetadata' = setURIRequest'.metadata
                 /\ m_currentPosition' = 0 /\ m_trackDuration' = 0
                 /\ m_nextURI' = ""
                 /\ setURIRequest'.pc = "callback" /\ ~setURIRequest'.called
     /\ setURIRequest'.called =>
          /\ setURIRequest'.uri # ""
          /\ setURIRequest'.pc \in {"event", "idle"}
          /\ setURIRequest.pc \in {"callback", "event", "idle"}
          /\ setURIRequest'.uri = setURIRequest.uri
          /\ setURIRequest'.metadata = setURIRequest.metadata
     /\ setURIRequest'.evented => setURIRequest'.called]_vars

\* A request with a new URI has cleared a queued next URI and its callback has
\* run.
C40_Witness ==
  /\ setURIRequest.pc = "event" /\ setURIRequest.called /\ setURIRequest.cleared
  /\ m_currentURI = setURIRequest.uri /\ m_nextURI = ""

====
